---- MODULE Spec2Model ----
(***************************************************************************)
(* Receipt-text extraction engine of backend/app/services/ocr_service.py.  *)
(*                                                                         *)
(* A text is a sequence of one-character strings.  A Decimal is the        *)
(* sequence of its decimal digits without leading zeros, so that amounts   *)
(* up to 10^11 and beyond are compared exactly.  An optional value is a    *)
(* sequence of zero or one element: None is <<>> and Some(v) is <<v>>.     *)
(* Regular expressions are modelled by matchers that return the position   *)
(* after the match (0 when there is no match); positions count from 1.     *)
(***************************************************************************)
EXTENDS Integers, Sequences, FiniteSets, TLC

VARIABLES
    text,      \* the recognized text handed to the extractors
    settings,  \* app.config.settings: ocr_provider and google_vision_api_key
    today,     \* the value date.today() returns now, as <<year, month, day>>
    call,      \* the last call made: [op, out]
    prev       \* the call made before `call`, when it was the same operation

vars == <<text, settings, today, call, prev>>

---------------------------------------------------------------------------
(* Bounds of the model *)

MaxLines == 2      \* lines of a text
MaxGroups == 3     \* thousands groups after the head of a generated numeral
MaxTicks == 1      \* days the clock advances

---------------------------------------------------------------------------
(* Characters *)

NL == "\n"
None == <<>>
Some(v) == <<v>>

\* a local variable: F applied to the value of v, which is computed once
With(v, F(_)) == CHOOSE r \in {F(x) : x \in {v}} : TRUE

\* the leftmost of a non-empty set of positions
Leftmost(S) == CHOOSE q \in S : \A r \in S : q <= r

DigitChars == {"0","1","2","3","4","5","6","7","8","9"}
Whitespace == {" ", "\n", "\t", "\r"}
ColonSpace == Whitespace \cup {":"}
\* the class [\d,] : a captured group that stops at the first dot
MoneyChars_NoDot == DigitChars \cup {","}
MoneyChars == DigitChars \cup {".", ","}

UpperChars == <<"A","B","C","D","E","F","G","H","I","J","K","L","M",
                "N","O","P","Q","R","S","T","U","V","W","X","Y","Z">>
LowerChars == <<"a","b","c","d","e","f","g","h","i","j","k","l","m",
                "n","o","p","q","r","s","t","u","v","w","x","y","z">>
UpperSet == {UpperChars[i] : i \in 1..26}
LowerSet == {LowerChars[i] : i \in 1..26}
AlphaChars == UpperSet \cup LowerSet

ToLowerMap == [c \in UpperSet |-> LowerChars[CHOOSE i \in 1..26 : UpperChars[i] = c]]
DigitVal == [c \in DigitChars |->
               CASE c = "0" -> 0 [] c = "1" -> 1 [] c = "2" -> 2 [] c = "3" -> 3
                 [] c = "4" -> 4 [] c = "5" -> 5 [] c = "6" -> 6 [] c = "7" -> 7
                 [] c = "8" -> 8 [] c = "9" -> 9]

\* str.lower() on one character, and the case folding of re.IGNORECASE
LowerChar(c) == IF c \in UpperSet THEN ToLowerMap[c] ELSE c
Lower(s) == [i \in 1..Len(s) |-> LowerChar(s[i])]

\* s[:n]
Take(s, n) == SubSeq(s, 1, IF Len(s) < n THEN Len(s) ELSE n)

\* number of lines of a text, text.split("\n") (a text without NL is one line)
LineCount(s) == 1 + Cardinality({i \in 1..Len(s) : s[i] = NL})

\* position of the last NL of a text, 0 when it has one line
LastBreak(s) ==
    IF \E i \in 1..Len(s) : s[i] = NL
    THEN CHOOSE i \in 1..Len(s) : s[i] = NL /\ \A j \in (i+1)..Len(s) : s[j] # NL
    ELSE 0
LastLine(s) == SubSeq(s, LastBreak(s) + 1, Len(s))
WithoutLastLine(s) == SubSeq(s, 1, LastBreak(s) - 1)

---------------------------------------------------------------------------
(* Regular-expression pieces *)

\* a greedy run X*: the first position at or after p whose character is not in C
RECURSIVE SkipWhile(_, _, _)
SkipWhile(s, p, C) ==
    IF p <= Len(s) /\ s[p] \in C THEN SkipWhile(s, p + 1, C) ELSE p

\* a literal word under re.IGNORECASE (w is written in lower case)
MatchWord(s, p, w) ==
    IF p + Len(w) - 1 <= Len(s) /\ \A i \in 1..Len(w) : LowerChar(s[p + i - 1]) = w[i]
    THEN p + Len(w)
    ELSE 0

\* words joined by \s*
RECURSIVE MatchWords(_, _, _)
MatchWords(s, p, ws) ==
    IF MatchWord(s, p, Head(ws)) = 0 THEN 0
    ELSE IF Len(ws) = 1 THEN p + Len(Head(ws))
    ELSE MatchWords(s, SkipWhile(s, p + Len(Head(ws)), Whitespace), Tail(ws))

\* an alternation (?:a|b|...) of word sequences: the first alternative that matches
RECURSIVE MatchLabel(_, _, _)
MatchLabel(s, p, alts) ==
    IF alts = <<>> THEN 0
    ELSE LET e == MatchWords(s, p, Head(alts))
         IN  IF e # 0 THEN e ELSE MatchLabel(s, p, Tail(alts))

NoMatch == [ok |-> FALSE, cap |-> <<>>, end |-> 0]

\* the group ([\d.,]+) at p
Capture(s, p) ==
    With(SkipWhile(s, p, MoneyChars), LAMBDA e :
        IF e > p THEN [ok |-> TRUE, cap |-> SubSeq(s, p, e - 1), end |-> e]
        ELSE NoMatch)

\* (?:Rp\.?|IDR)\s*([\d.,]+) at p, the currency being optional unless `required`.
\* After "Rp" the optional dot is taken first; when nothing can be captured
\* behind it the matcher backtracks and the dot starts the captured group.
MatchMoney(s, p, required) ==
    With(<<MatchWord(s, p, <<"r","p">>), MatchWord(s, p, <<"i","d","r">>)>>, LAMBDA w :
        LET rp == w[1]
            idr == w[2]
            start == IF rp # 0 THEN rp ELSE IF idr # 0 THEN idr ELSE p
        IN  IF rp = 0 /\ idr = 0 /\ required THEN NoMatch
            ELSE IF rp # 0 /\ rp <= Len(s) /\ s[rp] = "."
                    /\ SkipWhile(s, rp + 1, Whitespace) <= Len(s)
                    /\ s[SkipWhile(s, rp + 1, Whitespace)] \in MoneyChars
            THEN Capture(s, SkipWhile(s, rp + 1, Whitespace))
            ELSE Capture(s, SkipWhile(s, start, Whitespace)))

---------------------------------------------------------------------------
(* Decimal *)

IsSeparator(c) == c \in {".", ","}
NotSeparator(c) == ~IsSeparator(c)
\* match.replace(".", "").replace(",", "")
RemoveSeparators(m) == SelectSeq(m, NotSeparator)

RECURSIVE StripZeros(_)
StripZeros(ds) ==
    IF Len(ds) > 1 /\ ds[1] = "0" THEN StripZeros(Tail(ds)) ELSE ds

\* Decimal(clean) raises InvalidOperation on the empty string
DecimalRaises(clean) == clean = <<>>
Decimal(clean) == StripZeros(clean)

\* a <= b on Decimals
NumLeq(a, b) ==
    \/ Len(a) < Len(b)
    \/ /\ Len(a) = Len(b)
       /\ \/ a = b
          \/ \E i \in 1..Len(a) :
                /\ DigitVal[a[i]] < DigitVal[b[i]]
                /\ \A j \in 1..(i - 1) : a[j] = b[j]

NumMax(S) == CHOOSE m \in S : \A x \in S : NumLeq(x, m)

Num100 == <<"1","0","0">>
Num1000 == <<"1","0","0","0">>
Num100Billion == <<"1","0","0","0","0","0","0","0","0","0","0","0">>

---------------------------------------------------------------------------
(* extract_amount *)

\* text.replace('O','0').replace('o','0').replace('l','1').replace('I','1')
FixChar(c) ==
    IF c \in {"O", "o"} THEN "0"
    ELSE IF c \in {"l", "I"} THEN "1"
    ELSE c
NotBlank(c) == c # " "
\* ... .replace(' ', '')
NormalizeAmountText(t) == SelectSeq([i \in 1..Len(t) |-> FixChar(t[i])], NotBlank)

W_nominal == <<"n","o","m","i","n","a","l">>
W_jumlah == <<"j","u","m","l","a","h">>
W_amount == <<"a","m","o","u","n","t">>
W_total == <<"t","o","t","a","l">>
W_bayar == <<"b","a","y","a","r">>
W_pembayaran == <<"p","e","m","b","a","y","a","r","a","n">>
W_belanja == <<"b","e","l","a","n","j","a">>
W_harga == <<"h","a","r","g","a">>
W_grand == <<"g","r","a","n","d">>

TotalOf == << <<W_total, W_bayar>>, <<W_total, W_pembayaran>>,
              <<W_total, W_belanja>>, <<W_total, W_harga>> >>

\* The eight priority patterns, in list order.  Under re.IGNORECASE the two
\* spellings of each label are one alternative.
priority_patterns ==
    << [kind |-> "labelled", label |-> << <<W_nominal>> >>],
       [kind |-> "labelled", label |-> << <<W_jumlah>> >>],
       [kind |-> "labelled", label |-> << <<W_amount>> >>],
       [kind |-> "labelled", label |-> TotalOf],
       [kind |-> "labelled", label |-> TotalOf],
       [kind |-> "labelled", label |-> << <<W_grand, W_total>> >>],
       [kind |-> "labelled", label |-> << <<W_total>> >>],
       [kind |-> "currency", label |-> <<>>] >>

\* ([\d]{1,3}(?:[.,]\d{3})+) and ([\d]{4,})
fallback_patterns ==
    << [kind |-> "grouped", label |-> <<>>],
       [kind |-> "digits4", label |-> <<>>] >>

\* (?:[.,]\d{3})* from p, greedy
RECURSIVE SkipGroups(_, _)
SkipGroups(s, p) ==
    IF /\ p + 3 <= Len(s)
       /\ IsSeparator(s[p])
       /\ \A i \in 1..3 : s[p + i] \in DigitChars
    THEN SkipGroups(s, p + 4)
    ELSE p

\* one pattern tried at position p
MatchAt(pat, s, p) ==
    CASE pat.kind = "labelled" ->
            With(MatchLabel(s, p, pat.label), LAMBDA e :
                IF e = 0 THEN NoMatch
                ELSE MatchMoney(s, SkipWhile(s, e, ColonSpace), FALSE))
      [] pat.kind = "currency" -> MatchMoney(s, p, TRUE)
      [] pat.kind = "grouped" ->
            With(SkipWhile(s, p, DigitChars) - p, LAMBDA run :
                With(p + (IF run > 3 THEN 3 ELSE run), LAMBDA h :
                    With(SkipGroups(s, h), LAMBDA e :
                        IF run >= 1 /\ e > h
                        THEN [ok |-> TRUE, cap |-> SubSeq(s, p, e - 1), end |-> e]
                        ELSE NoMatch)))
      [] pat.kind = "number" ->
            \* (?:label)[:\s]*([\d.,]+)
            With(MatchLabel(s, p, pat.label), LAMBDA e :
                IF e = 0 THEN NoMatch ELSE Capture(s, SkipWhile(s, e, ColonSpace)))
      [] pat.kind = "percent" ->
            \* (?:label)\s*\d+%[:\s]*([\d.,]+)
            With(MatchLabel(s, p, pat.label), LAMBDA e :
                IF e = 0 THEN NoMatch
                ELSE With(SkipWhile(s, e, Whitespace), LAMBDA d :
                     With(SkipWhile(s, d, DigitChars), LAMBDA f :
                        IF f > d /\ f <= Len(s) /\ s[f] = "%"
                        THEN Capture(s, SkipWhile(s, f + 1, ColonSpace))
                        ELSE NoMatch)))
      [] pat.kind = "digits4" ->
            With(SkipWhile(s, p, DigitChars), LAMBDA e :
                IF e - p >= 4
                THEN [ok |-> TRUE, cap |-> SubSeq(s, p, e - 1), end |-> e]
                ELSE NoMatch)

\* re.findall(pattern, s): the captured groups of the non-overlapping matches,
\* scanning from the left
RECURSIVE FindAllFrom(_, _, _, _)
FindAllFrom(pat, s, hits, p) ==
    With({q \in hits : q >= p}, LAMBDA rest :
        IF rest = {} THEN <<>>
        ELSE With(MatchAt(pat, s, Leftmost(rest)), LAMBDA m :
                <<m.cap>> \o FindAllFrom(pat, s, rest, m.end)))

FindAll(pat, s, p) ==
    FindAllFrom(pat, s, {q \in p..Len(s) : MatchAt(pat, s, q).ok}, p)

\* the amounts list without the range filter
AmountsOf_NoRange(pat, s, lo) ==
    With(FindAll(pat, s, 1), LAMBDA ms :
        LET cleans == {RemoveSeparators(ms[i]) : i \in 1..Len(ms)}
        IN  {Decimal(c) : c \in {x \in cleans : ~DecimalRaises(x)}})

\* the amounts list built from the matches of one pattern: a match whose
\* Decimal cannot be built is skipped, one outside [lo, 10^11] is filtered out
AmountsOf(pat, s, lo) ==
    With(FindAll(pat, s, 1), LAMBDA ms :
        LET cleans == {RemoveSeparators(ms[i]) : i \in 1..Len(ms)}
        IN  {Decimal(c) : c \in {x \in cleans :
                /\ ~DecimalRaises(x)
                /\ NumLeq(lo, Decimal(x))
                /\ NumLeq(Decimal(x), Num100Billion)}})

\* the loop without its early return: the maximum over every pattern of the list
FirstAmount_MaxOfAll(pats, i, s, lo) ==
    LET all == UNION {AmountsOf(pats[j], s, lo) : j \in i..Len(pats)}
    IN  IF all = {} THEN None ELSE Some(NumMax(all))

\* the loop returning min(amounts)
RECURSIVE FirstAmount_Min(_, _, _, _)
FirstAmount_Min(pats, i, s, lo) ==
    IF i > Len(pats) THEN None
    ELSE LET amounts == AmountsOf(pats[i], s, lo)
         IN  IF amounts # {}
             THEN Some(CHOOSE m \in amounts : \A x \in amounts : NumLeq(m, x))
             ELSE FirstAmount_Min(pats, i + 1, s, lo)

\* the loop over a pattern list: the first pattern whose amounts list is not
\* empty returns its maximum
RECURSIVE FirstAmount(_, _, _, _)
FirstAmount(pats, i, s, lo) ==
    IF i > Len(pats) THEN None
    ELSE With(AmountsOf(pats[i], s, lo), LAMBDA amounts :
            IF amounts # {} THEN Some(NumMax(amounts))
            ELSE FirstAmount(pats, i + 1, s, lo))

\* extract_amount with the return statement that produced the value
extract_amount_via(t) ==
    With(NormalizeAmountText(t), LAMBDA original_text :
        With(FirstAmount(priority_patterns, 1, original_text, Num100), LAMBDA first :
            IF first # None THEN [amount |-> first, via |-> "priority"]
            ELSE With(FirstAmount(fallback_patterns, 1, original_text, Num1000), LAMBDA second :
                IF second # None THEN [amount |-> second, via |-> "fallback"]
                ELSE [amount |-> None, via |-> "none"])))

extract_amount(t) == extract_amount_via(t).amount

---------------------------------------------------------------------------
(* extract_date *)

INDONESIAN_MONTHS ==
    << <<<<"j","a","n">>, 1>>,
       <<<<"j","a","n","u","a","r","i">>, 1>>,
       <<<<"j","a","n","u","a","r","y">>, 1>>,
       <<<<"f","e","b">>, 2>>,
       <<<<"f","e","b","r","u","a","r","i">>, 2>>,
       <<<<"f","e","b","r","u","a","r","y">>, 2>>,
       <<<<"m","a","r">>, 3>>,
       <<<<"m","a","r","e","t">>, 3>>,
       <<<<"m","a","r","c","h">>, 3>>,
       <<<<"a","p","r">>, 4>>,
       <<<<"a","p","r","i","l">>, 4>>,
       <<<<"m","e","i">>, 5>>,
       <<<<"m","a","y">>, 5>>,
       <<<<"j","u","n">>, 6>>,
       <<<<"j","u","n","i">>, 6>>,
       <<<<"j","u","n","e">>, 6>>,
       <<<<"j","u","l">>, 7>>,
       <<<<"j","u","l","i">>, 7>>,
       <<<<"j","u","l","y">>, 7>>,
       <<<<"a","g","u">>, 8>>,
       <<<<"a","g","u","s","t","u","s">>, 8>>,
       <<<<"a","u","g">>, 8>>,
       <<<<"a","u","g","u","s","t">>, 8>>,
       <<<<"s","e","p">>, 9>>,
       <<<<"s","e","p","t","e","m","b","e","r">>, 9>>,
       <<<<"o","k","t">>, 10>>,
       <<<<"o","k","t","o","b","e","r">>, 10>>,
       <<<<"o","c","t">>, 10>>,
       <<<<"o","c","t","o","b","e","r">>, 10>>,
       <<<<"n","o","v">>, 11>>,
       <<<<"n","o","v","e","m","b","e","r">>, 11>>,
       <<<<"d","e","s">>, 12>>,
       <<<<"d","e","s","e","m","b","e","r">>, 12>>,
       <<<<"d","e","c">>, 12>>,
       <<<<"d","e","c","e","m","b","e","r">>, 12>> >>

\* INDONESIAN_MONTHS.get(key): Some(month) or None
MonthGet(key) ==
    IF \E i \in 1..Len(INDONESIAN_MONTHS) : INDONESIAN_MONTHS[i][1] = key
    THEN Some(INDONESIAN_MONTHS[CHOOSE i \in 1..Len(INDONESIAN_MONTHS) :
                                    INDONESIAN_MONTHS[i][1] = key][2])
    ELSE None

\* int(digits), for the short digit strings the date patterns capture
RECURSIVE IntOf(_)
IntOf(ds) ==
    IF ds = <<>> THEN 0
    ELSE 10 * IntOf(SubSeq(ds, 1, Len(ds) - 1)) + DigitVal[ds[Len(ds)]]

IsLeap(y) == y % 4 = 0 /\ (y % 100 # 0 \/ y % 400 = 0)
DaysInMonth(y, m) ==
    IF m = 2 /\ IsLeap(y) THEN 29
    ELSE <<31, 28, 31, 30, 31, 30, 31, 31, 30, 31, 30, 31>>[m]

\* a date check that only bounds the day by 31
DateRaises_AnyMonthLength(y, m, d) ==
    ~(y \in 1..9999 /\ m \in 1..12 /\ d \in 1..31)

\* date(y, m, d) raises ValueError; datetime.strptime raises it for the same
\* field values
DateRaises(y, m, d) ==
    ~(/\ y \in 1..9999
      /\ m \in 1..12
      /\ d >= 1
      /\ d <= DaysInMonth(y, m))

NoDateMatch == [ok |-> FALSE, groups |-> <<>>]

\* (\d{1,2})\s+([A-Za-z]+)\s+(\d{2,4}) at p
MatchIndo(s, p) ==
    With(p + (IF p + 1 <= Len(s) /\ s[p + 1] \in DigitChars THEN 2 ELSE 1), LAMBDA q1 :
    With(SkipWhile(s, q1, Whitespace), LAMBDA q2 :
    With(SkipWhile(s, q2, AlphaChars), LAMBDA q3 :
    With(SkipWhile(s, q3, Whitespace), LAMBDA q4 :
    With(SkipWhile(s, q4, DigitChars) - q4, LAMBDA run :
        IF /\ s[p] \in DigitChars
           /\ q2 > q1
           /\ q3 > q2
           /\ q4 > q3
           /\ run >= 2
        THEN [ok |-> TRUE,
              groups |-> <<SubSeq(s, p, q1 - 1), SubSeq(s, q2, q3 - 1),
                           SubSeq(s, q4, q4 + (IF run > 4 THEN 4 ELSE run) - 1)>>]
        ELSE NoDateMatch)))))

DateSeps == {"/", "-"}

\* (\d{a})[/-](\d{b})[/-](\d{c}) at p
MatchNumeric(s, p, a, b, c) ==
    IF /\ p + a + b + c + 1 <= Len(s)
       /\ \A i \in 0..(a - 1) : s[p + i] \in DigitChars
       /\ s[p + a] \in DateSeps
       /\ \A i \in 1..b : s[p + a + i] \in DigitChars
       /\ s[p + a + b + 1] \in DateSeps
       /\ \A i \in 1..c : s[p + a + b + 1 + i] \in DigitChars
    THEN [ok |-> TRUE,
          groups |-> <<SubSeq(s, p, p + a - 1),
                       SubSeq(s, p + a + 1, p + a + b),
                       SubSeq(s, p + a + b + 2, p + a + b + c + 1)>>]
    ELSE NoDateMatch

\* the numeric patterns with their strptime formats, in list order
date_patterns ==
    << [kind |-> "numeric", a |-> 2, b |-> 2, c |-> 4, fmt |-> "%d-%m-%Y"],
       [kind |-> "numeric", a |-> 4, b |-> 2, c |-> 2, fmt |-> "%Y-%m-%d"],
       [kind |-> "numeric", a |-> 2, b |-> 2, c |-> 2, fmt |-> "%d-%m-%y"] >>

indo_pattern == [kind |-> "indo"]

DateMatchAt(pat, s, p) ==
    IF pat.kind = "indo" THEN MatchIndo(s, p)
    ELSE MatchNumeric(s, p, pat.a, pat.b, pat.c)

\* re.search(pattern, s): the leftmost match
Search(pat, s, p) ==
    With({q \in p..Len(s) : DateMatchAt(pat, s, q).ok}, LAMBDA hits :
        IF hits = {} THEN NoDateMatch ELSE DateMatchAt(pat, s, Leftmost(hits)))

\* the 2-digit year of the month-name pattern
PivotYear(year) ==
    IF year < 100 THEN (IF year < 50 THEN 2000 + year ELSE 1900 + year) ELSE year

\* datetime.strptime("-".join(groups), fmt).date() as <<year, month, day>>;
\* %y maps 00..68 to 2000..2068 and 69..99 to 1969..1999
Strptime(groups, fmt) ==
    With(<<IntOf(groups[1]), IntOf(groups[2]), IntOf(groups[3])>>, LAMBDA n :
        CASE fmt = "%d-%m-%Y" -> <<n[3], n[2], n[1]>>
          [] fmt = "%Y-%m-%d" -> <<n[1], n[2], n[3]>>
          [] fmt = "%d-%m-%y" -> <<(IF n[3] <= 68 THEN 2000 ELSE 1900) + n[3], n[2], n[1]>>)

\* the month-name step of extract_date
IndoDate(t) ==
    With(Search(indo_pattern, t, 1), LAMBDA match :
        IF ~match.ok THEN None
        ELSE With(IntOf(match.groups[1]), LAMBDA day :
             With(Lower(match.groups[2]), LAMBDA month_str :
             With(PivotYear(IntOf(match.groups[3])), LAMBDA year :
             With(MonthGet(Take(month_str, 3)), LAMBDA month :
                IF month # None /\ ~DateRaises(year, month[1], day)
                THEN Some(<<year, month[1], day>>)
                ELSE None)))))

\* the loop over the numeric patterns: the first pattern whose leftmost match
\* parses returns it
RECURSIVE NumericDate(_, _)
NumericDate(t, i) ==
    IF i > Len(date_patterns) THEN [date |-> None, via |-> "none"]
    ELSE With(Search(date_patterns[i], t, 1), LAMBDA match :
            IF ~match.ok THEN NumericDate(t, i + 1)
            ELSE With(Strptime(match.groups, date_patterns[i].fmt), LAMBDA d :
                IF ~DateRaises(d[1], d[2], d[3])
                THEN [date |-> Some(d), via |-> date_patterns[i].fmt]
                ELSE NumericDate(t, i + 1)))

\* extract_date with the pattern that produced the date
extract_date_via(t) ==
    With(IndoDate(t), LAMBDA indo :
        IF indo # None THEN [date |-> indo, via |-> "indo"]
        ELSE NumericDate(t, 1))

extract_date(t) == extract_date_via(t).date

---------------------------------------------------------------------------
(* Strings *)

RECURSIVE SkipBack(_, _, _)
SkipBack(s, p, C) ==
    IF p >= 1 /\ s[p] \in C THEN SkipBack(s, p - 1, C) ELSE p

\* str.strip()
Strip(s) == SubSeq(s, SkipWhile(s, 1, Whitespace), SkipBack(s, Len(s), Whitespace))

\* the first position at or after p that holds c, Len(s) + 1 when there is none
RECURSIVE Find(_, _, _)
Find(s, p, c) ==
    IF p <= Len(s) /\ s[p] # c THEN Find(s, p + 1, c) ELSE p

\* s[p:].split("\n")
RECURSIVE SplitFrom(_, _)
SplitFrom(s, p) ==
    With(Find(s, p, NL), LAMBDA e :
        IF e > Len(s) THEN <<SubSeq(s, p, Len(s))>>
        ELSE <<SubSeq(s, p, e - 1)>> \o SplitFrom(s, e + 1))
Split(s) == SplitFrom(s, 1)

\* w in s
Contains(s, w) == \E p \in 1..(Len(s) - Len(w) + 1) : SubSeq(s, p, p + Len(w) - 1) = w

\* any(w in s for w in ws)
ContainsAny(s, ws) == \E i \in 1..Len(ws) : Contains(s, ws[i])

ToUpperMap == [c \in LowerSet |-> UpperChars[CHOOSE i \in 1..26 : LowerChars[i] = c]]
UpperChar(c) == IF c \in LowerSet THEN ToUpperMap[c] ELSE c
\* str.upper() and str.capitalize()
Upper(s) == [i \in 1..Len(s) |-> UpperChar(s[i])]
Capitalize(s) == [i \in 1..Len(s) |-> IF i = 1 THEN UpperChar(s[i]) ELSE LowerChar(s[i])]

---------------------------------------------------------------------------
(* extract_recipient and extract_merchant *)

recipient_labels == << <<<<"t","u","j","u","a","n">>>>, <<<<"p","e","n","e","r","i","m","a">>>>, <<<<"k","e","p","a","d","a">>>> >>
AlphaSpace == AlphaChars \cup Whitespace

\* (?:Tujuan|Penerima|Kepada)[:\s]*\n?\s*([A-Za-z\s]+) at p.  When no letter
\* follows the colons and blanks, the matcher backtracks and the group takes
\* the last blank run behind the label instead.
MatchRecipient(s, p) ==
    With(MatchLabel(s, p, recipient_labels), LAMBDA e :
        IF e = 0 THEN NoMatch
        ELSE With(SkipWhile(s, e, ColonSpace), LAMBDA c :
             With(SkipBack(s, c - 1, {":"}), LAMBDA q :
             With(SkipBack(s, q, Whitespace) + 1, LAMBDA b :
                IF c <= Len(s) /\ s[c] \in AlphaChars
                THEN With(SkipWhile(s, c, AlphaSpace), LAMBDA g :
                        [ok |-> TRUE, cap |-> SubSeq(s, c, g - 1), end |-> g])
                ELSE IF q >= e /\ b <= q
                THEN [ok |-> TRUE, cap |-> SubSeq(s, (IF b < e THEN e ELSE b), q),
                      end |-> q + 1]
                ELSE NoMatch))))

\* re.search(tujuan_pattern, s): the leftmost match
SearchRecipient(s, p) ==
    With({q \in p..Len(s) : MatchRecipient(s, q).ok}, LAMBDA hits :
        IF hits = {} THEN NoMatch ELSE MatchRecipient(s, Leftmost(hits)))

extract_recipient(t) ==
    With(SearchRecipient(t, 1), LAMBDA match :
        With(Strip(Split(Strip(match.cap))[1]), LAMBDA name :
            IF match.ok /\ Len(name) > 2 THEN Some(name) ELSE None))

transfer_keywords == 
    << <<"t","r","a","n","s","a","k","s","i"," ","b","e","r","h","a","s","i","l">>, <<"t","r","a","n","s","f","e","r"," ","b","e","r","h","a","s","i","l">>, <<"t","u","j","u","a","n">>, <<"s","u","m","b","e","r"," ","d","a","n","a">>,
       <<"r","e","f"," ","i","d">>, <<"w","o","n","d","r">>, <<"b","n","i">>, <<"b","c","a">>, <<"m","a","n","d","i","r","i">>, <<"b","r","i">>, <<"d","a","n","a">>, <<"g","o","p","a","y">>, <<"o","v","o">> >>
bank_apps == 
    << <<"w","o","n","d","r">>, <<"b","n","i">>, <<"b","c","a">>, <<"m","a","n","d","i","r","i">>, <<"b","r","i">>, <<"d","a","n","a">>, <<"g","o","p","a","y">>, <<"o","v","o">>, <<"s","h","o","p","e","e","p","a","y">>, <<"l","i","n","k","a","j","a">> >>
merchant_denylist == << <<"j","l",".">>, <<"j","a","l","a","n">>, <<"t","e","l","p">>, <<"p","h","o","n","e">>, <<"f","a","x">>, <<"t","r","a","n","s","a","k","s","i">> >>
\* f"Transfer ke {recipient}", and the English wording of the prefix
TransferTo == <<"T","r","a","n","s","f","e","r"," ","t","o"," ">>
TransferKe == <<"T","r","a","n","s","f","e","r"," ","k","e"," ">>

\* the first bank or wallet name of the list found in the lowered text
RECURSIVE FirstBank(_, _)
FirstBank(text_lower, i) ==
    IF i > Len(bank_apps) THEN None
    ELSE IF Contains(text_lower, bank_apps[i])
    THEN Some(IF Len(bank_apps[i]) <= 3 THEN Upper(bank_apps[i]) ELSE Capitalize(bank_apps[i]))
    ELSE FirstBank(text_lower, i + 1)

\* the scan of lines[:5] for a merchant line
RECURSIVE FirstMerchantLine(_, _)
FirstMerchantLine(ls, i) ==
    IF i > Len(ls) \/ i > 5 THEN None
    ELSE With(Strip(ls[i]), LAMBDA line :
            IF Len(line) >= 1 /\ line[1] \in DigitChars THEN FirstMerchantLine(ls, i + 1)
            ELSE IF ContainsAny(Lower(line), merchant_denylist) THEN FirstMerchantLine(ls, i + 1)
            ELSE IF Len(line) > 5 /\ Len(line) < 50 THEN Some(line)
            ELSE FirstMerchantLine(ls, i + 1))

extract_merchant(t) ==
    With(Lower(t), LAMBDA text_lower :
    With(ContainsAny(text_lower, transfer_keywords), LAMBDA is_bank_transfer :
    With(IF is_bank_transfer THEN extract_recipient(t) ELSE None, LAMBDA recipient :
    With(IF is_bank_transfer THEN FirstBank(text_lower, 1) ELSE None, LAMBDA bank :
        IF recipient # None THEN Some(TransferKe \o recipient[1])
        ELSE IF bank # None THEN bank
        ELSE With(Split(Strip(t)), LAMBDA lines : FirstMerchantLine(lines, 1))))))

---------------------------------------------------------------------------
(* extract_subtotal and extract_tax_and_service *)

W_sub == <<"s","u","b">>
W_subtotal == <<"s","u","b","t","o","t","a","l">>
subtotal_patterns ==
    << [kind |-> "labelled", label |-> << <<W_sub, W_total>>, <<W_subtotal>> >>] >>

\* re.search(pattern, s): the captured group of the leftmost match
SearchFirst(pat, s) ==
    With(FindAll(pat, s, 1), LAMBDA ms :
        IF ms = <<>> THEN None ELSE Some(ms[1]))

RECURSIVE SubtotalLoop(_, _)
SubtotalLoop(t, i) ==
    IF i > Len(subtotal_patterns) THEN None
    ELSE With(SearchFirst(subtotal_patterns[i], t), LAMBDA match :
            IF match = None THEN SubtotalLoop(t, i + 1)
            ELSE With(RemoveSeparators(match[1]), LAMBDA subtotal_str :
                IF /\ ~DecimalRaises(subtotal_str)
                   /\ NumLeq(Num100, Decimal(subtotal_str))
                   /\ NumLeq(Decimal(subtotal_str), Num100Billion)
                THEN Some(Decimal(subtotal_str))
                ELSE SubtotalLoop(t, i + 1)))

extract_subtotal(t) == SubtotalLoop(t, 1)

tax_labels == << <<<<"p","p","n">>>>, <<<<"p","b","1">>>>, <<<<"t","a","x">>>>, <<<<"p","a","j","a","k">>>> >>
service_labels == << <<<<"s","e","r","v","i","c","e">>>>, <<<<"s","e","r","v","i","s">>>>, <<<<"s","c">>>> >>
service_percent_labels == << <<<<"s","e","r","v","i","c","e">>>>, <<<<"s","e","r","v","i","s">>>> >>
tax_patterns ==
    << [kind |-> "number", label |-> tax_labels],
       [kind |-> "percent", label |-> tax_labels] >>
service_patterns ==
    << [kind |-> "number", label |-> service_labels],
       [kind |-> "percent", label |-> service_percent_labels] >>

\* 0 < v < 10000000
InTaxRange(v) == v # <<"0">> /\ Len(v) <= 7

\* the loop over the tax (or service) patterns: the variable keeps the value
\* of the last match whose Decimal was built, and the loop stops at the first
\* value in range
RECURSIVE TaxLoop(_, _, _, _)
TaxLoop(pats, i, s, cur) ==
    IF i > Len(pats) THEN cur
    ELSE With(SearchFirst(pats[i], s), LAMBDA match :
            IF match = None THEN TaxLoop(pats, i + 1, s, cur)
            ELSE With(RemoveSeparators(match[1]), LAMBDA tax_str :
                IF DecimalRaises(tax_str) THEN TaxLoop(pats, i + 1, s, cur)
                ELSE IF InTaxRange(Decimal(tax_str)) THEN Some(Decimal(tax_str))
                ELSE TaxLoop(pats, i + 1, s, Some(Decimal(tax_str)))))

extract_tax_and_service(t) ==
    With(Lower(t), LAMBDA text_lower :
        [tax |-> TaxLoop(tax_patterns, 1, text_lower, None),
         service |-> TaxLoop(service_patterns, 1, text_lower, None)])

---------------------------------------------------------------------------
(* Decimal arithmetic *)

DigitSeq == <<"0","1","2","3","4","5","6","7","8","9">>
Front(s) == SubSeq(s, 1, Len(s) - 1)

RECURSIVE AddCarry(_, _, _)
AddCarry(a, b, c) ==
    IF a = <<>> /\ b = <<>> THEN (IF c = 0 THEN <<>> ELSE <<"1">>)
    ELSE With((IF a = <<>> THEN 0 ELSE DigitVal[a[Len(a)]])
              + (IF b = <<>> THEN 0 ELSE DigitVal[b[Len(b)]]) + c, LAMBDA sum :
            AddCarry(Front(a), Front(b), sum \div 10) \o <<DigitSeq[(sum % 10) + 1]>>)

\* a + b on Decimals
NumAdd(a, b) == StripZeros(AddCarry(a, b, 0))

\* a * d + c on Decimals, for a digit d and a carry c
RECURSIVE MulDigit(_, _, _)
MulDigit(a, d, c) ==
    IF a = <<>> THEN (IF c = 0 THEN <<>> ELSE <<DigitSeq[c + 1]>>)
    ELSE With(DigitVal[a[Len(a)]] * d + c, LAMBDA prod :
            MulDigit(Front(a), d, prod \div 10) \o <<DigitSeq[(prod % 10) + 1]>>)

\* a * b on Decimals
RECURSIVE NumMul(_, _)
NumMul(a, b) ==
    IF b = <<>> THEN <<"0">>
    ELSE With(NumMul(a, Front(b)) \o <<"0">>, LAMBDA high :
         With(MulDigit(a, DigitVal[b[Len(b)]], 0), LAMBDA low :
            NumAdd(low, high)))

Num100Million == <<"1","0","0","0","0","0","0","0","0">>

---------------------------------------------------------------------------
(* extract_items *)

skip_keywords ==
    << <<"t","o","t","a","l">>, <<"s","u","b","t","o","t","a","l">>, <<"s","u","b"," ","t","o","t","a","l">>, <<"g","r","a","n","d"," ","t","o","t","a","l">>,
       <<"p","a","j","a","k">>, <<"t","a","x">>, <<"p","p","n">>, <<"p","b","1">>,
       <<"s","e","r","v","i","c","e">>, <<"d","i","s","k","o","n">>, <<"d","i","s","c","o","u","n","t">>, <<"t","u","n","a","i">>,
       <<"c","a","s","h">>, <<"d","e","b","i","t">>, <<"c","r","e","d","i","t">>, <<"k","a","r","t","u">>,
       <<"k","e","m","b","a","l","i","a","n">>, <<"c","h","a","n","g","e">>, <<"b","a","y","a","r">>, <<"p","a","y","m","e","n","t">>,
       <<"t","a","n","g","g","a","l">>, <<"d","a","t","e">>, <<"w","a","k","t","u">>, <<"t","i","m","e">>,
       <<"k","a","s","i","r">>, <<"c","a","s","h","i","e","r">>, <<"n","o","t","a">>, <<"r","e","c","e","i","p","t">>,
       <<"s","t","r","u","k">>, <<"t","e","r","i","m","a"," ","k","a","s","i","h">>, <<"t","h","a","n","k"," ","y","o","u">>, <<"m","e","m","b","e","r">>,
       <<"c","u","s","t","o","m","e","r">>, <<"p","e","l","a","n","g","g","a","n">>, <<"n","o",".">>, <<"t","e","l","p">>,
       <<"p","h","o","n","e">>, <<"a","l","a","m","a","t">>, <<"a","d","d","r","e","s","s">>, <<"j","l",".">>,
       <<"j","a","l","a","n">>, <<"r","p">>, <<"i","d","r">>, <<"-","-","-">>,
       <<"=","=","=">>, <<"*","*","*">>, <<"q","t","y">>, <<"h","a","r","g","a">>,
       <<"j","u","m","l","a","h">> >>

SymbolChars == DigitChars \cup Whitespace \cup {".", ",", "-", "=", "*"}
\* re.match(r'^[\d\s.,\-=*]+$', line)
OnlyNumbersOrSymbols(line) == line # <<>> /\ \A i \in 1..Len(line) : line[i] \in SymbolChars

NoItem == <<>>
Item(name, quantity, unit_price, total_price) ==
    [name |-> name, quantity |-> quantity, unit_price |-> unit_price,
     total_price |-> total_price]

\* the check without its upper limit
InItemRange_NoUpper(price) == NumLeq(Num100, price)
\* 100 <= price <= 100000000
InItemRange(price) == NumLeq(Num100, price) /\ NumLeq(price, Num100Million)

\* the start of the run [\d.,]+$ that ends the line, Len(s) + 1 when the line
\* does not end in one
MoneyTail(s) == SkipBack(s, Len(s), MoneyChars) + 1

\* Pattern 1 with the name test of patterns 2 and 3
Pattern1_ShortNames(s) ==
    With(MoneyTail(s), LAMBDA m :
    With(SkipBack(s, m - 1, Whitespace) + 1, LAMBDA w :
        IF m <= Len(s) /\ m - w >= 2 /\ w >= 2
        THEN With(Strip(SubSeq(s, 1, w - 1)), LAMBDA name :
             With(RemoveSeparators(SubSeq(s, m, Len(s))), LAMBDA price_str :
                IF /\ ~DecimalRaises(price_str)
                   /\ InItemRange(Decimal(price_str))
                   /\ Len(name) > 1
                THEN Some(Item(name, <<"1">>, None, Decimal(price_str)))
                ELSE NoItem))
        ELSE NoItem))

\* Pattern 1: ^(.+?)\s{2,}([\d.,]+)$
Pattern1(s) ==
    With(MoneyTail(s), LAMBDA m :
    With(SkipBack(s, m - 1, Whitespace) + 1, LAMBDA w :
        IF m <= Len(s) /\ m - w >= 2 /\ w >= 2
        THEN With(Strip(SubSeq(s, 1, w - 1)), LAMBDA name :
             With(RemoveSeparators(SubSeq(s, m, Len(s))), LAMBDA price_str :
                IF /\ ~DecimalRaises(price_str)
                   /\ InItemRange(Decimal(price_str))
                   /\ Len(name) > 2
                THEN Some(Item(name, <<"1">>, None, Decimal(price_str)))
                ELSE NoItem))
        ELSE NoItem))

NoRest == [ok |-> FALSE, qty |-> <<>>, unit |-> <<>>, total |-> <<>>]

\* \s*[@]\s*([\d.,]+)\s*[=]?\s*([\d.,]+)?$ at p: the two captured groups
Rest2(s, p) ==
    With(SkipWhile(s, p, Whitespace), LAMBDA a :
        IF a > Len(s) \/ s[a] # "@" THEN NoRest
        ELSE With(Capture(s, SkipWhile(s, a + 1, Whitespace)), LAMBDA unit :
            IF ~unit.ok THEN NoRest
            ELSE With(SkipWhile(s, unit.end, Whitespace), LAMBDA e :
                 With(SkipWhile(s, (IF e <= Len(s) /\ s[e] = "=" THEN e + 1 ELSE e),
                                Whitespace), LAMBDA f :
                    IF SkipWhile(s, f, MoneyChars) > Len(s)
                    THEN [ok |-> TRUE, qty |-> <<>>, unit |-> unit.cap,
                          total |-> SubSeq(s, f, Len(s))]
                    ELSE NoRest))))

\* \s+(\d+)\s*[@xX]\s*([\d.,]+)$ at p: the two captured groups
Rest3(s, p) ==
    With(SkipWhile(s, p, Whitespace), LAMBDA c :
    With(SkipWhile(s, c, DigitChars), LAMBDA d :
    With(SkipWhile(s, d, Whitespace), LAMBDA e :
        IF c > p /\ d > c /\ e <= Len(s) /\ s[e] \in {"@", "x", "X"}
        THEN With(Capture(s, SkipWhile(s, e + 1, Whitespace)), LAMBDA unit :
                IF unit.ok /\ unit.end > Len(s)
                THEN [ok |-> TRUE, qty |-> SubSeq(s, c, d - 1), unit |-> unit.cap,
                      total |-> <<>>]
                ELSE NoRest)
        ELSE NoRest)))

\* \s+(?:Rp\.?|IDR)\s*([\d.,]+)$ at p: the captured group
Rest4(s, p) ==
    With(SkipWhile(s, p, Whitespace), LAMBDA c :
    With(MatchMoney(s, c, TRUE), LAMBDA m :
    With(MatchWord(s, c, <<"r","p">>), LAMBDA rp :
        IF c > p /\ m.ok /\ m.end > Len(s)
        THEN [ok |-> TRUE, qty |-> <<>>, unit |-> m.cap, total |-> <<>>]
        ELSE IF c > p /\ rp # 0
        THEN With(Capture(s, SkipWhile(s, rp, Whitespace)), LAMBDA undotted :
                IF undotted.ok /\ undotted.end > Len(s)
                THEN [ok |-> TRUE, qty |-> <<>>, unit |-> undotted.cap, total |-> <<>>]
                ELSE NoRest)
        ELSE NoRest)))

\* the rest of pattern k behind its lazy group, at p
Rest(k, s, p) ==
    CASE k = 2 -> Rest2(s, p)
      [] k = 3 -> Rest3(s, p)
      [] k = 4 -> Rest4(s, p)

\* the end of the lazy group (.+?) of pattern k that starts at n: the least
\* end with the rest of the pattern matching behind it; 0 when there is none
LazyEnd(s, n, k) ==
    With({b \in n..Len(s) : Rest(k, s, b + 1).ok}, LAMBDA ends :
        IF ends = {} THEN 0 ELSE Leftmost(ends))

\* Pattern 2: ^(\d+)\s*[xX]\s*(.+?)\s*[@]\s*([\d.,]+)\s*[=]?\s*([\d.,]+)?$
\* When the name cannot start behind the blanks that follow the x, the matcher
\* lets the name start inside them; such a name is blank and fails len(name) > 1.
Pattern2(s) ==
    With(SkipWhile(s, 1, DigitChars), LAMBDA d :
    With(SkipWhile(s, d, Whitespace), LAMBDA x :
        IF d > 1 /\ x <= Len(s) /\ s[x] \in {"x", "X"}
        THEN With(SkipWhile(s, x + 1, Whitespace), LAMBDA n :
             With(LazyEnd(s, n, 2), LAMBDA b :
                IF b = 0 THEN NoItem
                ELSE With(Rest2(s, b + 1), LAMBDA rest :
                     With(StripZeros(SubSeq(s, 1, d - 1)), LAMBDA qty :
                     With(Strip(SubSeq(s, n, b)), LAMBDA name :
                     With(RemoveSeparators(rest.unit), LAMBDA unit_price_str :
                     With(RemoveSeparators(rest.total), LAMBDA total_str :
                        IF DecimalRaises(unit_price_str) THEN NoItem
                        ELSE With(Decimal(unit_price_str), LAMBDA unit_price :
                             With(IF total_str # <<>> THEN Decimal(total_str)
                                  ELSE NumMul(unit_price, qty), LAMBDA total_price :
                                IF InItemRange(total_price) /\ Len(name) > 1
                                THEN Some(Item(name, qty, Some(unit_price), total_price))
                                ELSE NoItem)))))))))
        ELSE NoItem))

\* Pattern 3: ^(.+?)\s+(\d+)\s*[@xX]\s*([\d.,]+)$
Pattern3(s) ==
    With(LazyEnd(s, 1, 3), LAMBDA b :
        IF b = 0 THEN NoItem
        ELSE With(Rest3(s, b + 1), LAMBDA rest :
             With(Strip(SubSeq(s, 1, b)), LAMBDA name :
             With(StripZeros(rest.qty), LAMBDA qty :
             With(RemoveSeparators(rest.unit), LAMBDA unit_price_str :
                IF DecimalRaises(unit_price_str) THEN NoItem
                ELSE With(Decimal(unit_price_str), LAMBDA unit_price :
                     With(NumMul(unit_price, qty), LAMBDA total_price :
                        IF InItemRange(total_price) /\ Len(name) > 1
                        THEN Some(Item(name, qty, Some(unit_price), total_price))
                        ELSE NoItem)))))))

\* Pattern 4: ^(.+?)\s+(?:Rp\.?|IDR)\s*([\d.,]+)$
Pattern4(s) ==
    With(LazyEnd(s, 1, 4), LAMBDA b :
        IF b = 0 THEN NoItem
        ELSE With(Strip(SubSeq(s, 1, b)), LAMBDA name :
             With(RemoveSeparators(Rest4(s, b + 1).unit), LAMBDA price_str :
                IF /\ ~DecimalRaises(price_str)
                   /\ InItemRange(Decimal(price_str))
                   /\ Len(name) > 2
                THEN Some(Item(name, <<"1">>, None, Decimal(price_str)))
                ELSE NoItem)))

\* the patterns tried with the quantity grammars first: 2, 3, 1, 4
RECURSIVE FirstPattern_QuantityFirst(_, _)
FirstPattern_QuantityFirst(line_clean, k) ==
    IF k > 4 THEN NoItem
    ELSE With(CASE k = 1 -> Pattern2(line_clean)
                [] k = 2 -> Pattern3(line_clean)
                [] k = 3 -> Pattern1(line_clean)
                [] k = 4 -> Pattern4(line_clean), LAMBDA item :
            IF item # NoItem THEN item ELSE FirstPattern_QuantityFirst(line_clean, k + 1))

\* re.match(pattern1, line_clean) matches
Pattern1Matches(s) ==
    With(MoneyTail(s), LAMBDA m :
    With(SkipBack(s, m - 1, Whitespace) + 1, LAMBDA w :
        m <= Len(s) /\ m - w >= 2 /\ w >= 2))

\* the loop body leaving the line when pattern 1 matches, valid or not
RECURSIVE FirstPattern_StopAtMatch(_, _)
FirstPattern_StopAtMatch(line_clean, k) ==
    IF k > 4 THEN NoItem
    ELSE IF k = 1 /\ Pattern1Matches(line_clean) THEN Pattern1(line_clean)
    ELSE With(CASE k = 1 -> Pattern1(line_clean)
                [] k = 2 -> Pattern2(line_clean)
                [] k = 3 -> Pattern3(line_clean)
                [] k = 4 -> Pattern4(line_clean), LAMBDA item :
            IF item # NoItem THEN item ELSE FirstPattern_StopAtMatch(line_clean, k + 1))

\* the patterns of the loop body from the k-th on: the first that matches the
\* line with values that pass its check appends its item
RECURSIVE FirstPattern(_, _)
FirstPattern(line_clean, k) ==
    IF k > 4 THEN NoItem
    ELSE With(CASE k = 1 -> Pattern1(line_clean)
                [] k = 2 -> Pattern2(line_clean)
                [] k = 3 -> Pattern3(line_clean)
                [] k = 4 -> Pattern4(line_clean), LAMBDA item :
            IF item # NoItem THEN item ELSE FirstPattern(line_clean, k + 1))

\* the body of the loop without the skip_keywords test
ItemOfLine_NoSkip(line) ==
    With(Strip(line), LAMBDA line_clean :
        IF Len(line_clean) < 3 THEN NoItem
        ELSE IF OnlyNumbersOrSymbols(line_clean) THEN NoItem
        ELSE FirstPattern(line_clean, 1))

\* the body of the loop for one line: the item the line appends, if any
ItemOfLine(line) ==
    With(Strip(line), LAMBDA line_clean :
        IF Len(line_clean) < 3 THEN NoItem
        ELSE IF ContainsAny(Lower(line_clean), skip_keywords) THEN NoItem
        ELSE IF OnlyNumbersOrSymbols(line_clean) THEN NoItem
        ELSE FirstPattern(line_clean, 1))

\* the loop appending the item of a line twice
RECURSIVE ItemsOfLines_Twice(_, _)
ItemsOfLines_Twice(ls, i) ==
    IF i > Len(ls) THEN <<>>
    ELSE ItemOfLine(ls[i]) \o ItemOfLine(ls[i]) \o ItemsOfLines_Twice(ls, i + 1)

\* for line in lines: the items appended, in the order of the lines
RECURSIVE ItemsOfLines(_, _)
ItemsOfLines(ls, i) ==
    IF i > Len(ls) THEN <<>>
    ELSE ItemOfLine(ls[i]) \o ItemsOfLines(ls, i + 1)

extract_items(t) == With(Split(Strip(t)), LAMBDA lines : ItemsOfLines(lines, 1))

---------------------------------------------------------------------------
(* Input texts *)

\* a numeral written with '.' thousands separators: a head and k groups
RECURSIVE Grouped(_, _, _)
Grouped(h, g, k) == IF k = 0 THEN h ELSE Grouped(h, g, k - 1) \o <<".">> \o g

\* the digits of Grouped(h, g, k)
RECURSIVE GroupedDigits(_, _, _)
GroupedDigits(h, g, k) == IF k = 0 THEN h ELSE GroupedDigits(h, g, k - 1) \o g

Heads == { <<"0">>, <<"1">>, <<"5","0">>, <<"1","0","0">> }
GroupDigits == { <<"0","0","0">>, <<"9","9","9">> }
Numerals == {Grouped(h, g, k) : h \in Heads, g \in GroupDigits, k \in 0..MaxGroups}

TotalRp == <<"T","O","T","A","L",":"," ","R","p"," ">>
AmountPrefixes ==
    { TotalRp,
      <<"J","U","M","L","A","H",":"," ">>,
      <<"R","p"," ">>,
      <<"T","o","t","a","l"," ">>,
      <<"T","O","T","A","L"," ">>,
      <<"t","o","t","a","l"," ">>,
      <<>> }
AmountLines == {p \o n : p \in AmountPrefixes, n \in Numerals}

\* lines appended to a text: "JUMLAH: 500", "Rp 50.000", "5000", "Rp 99"
AmountExtraLines ==
    { <<"J","U","M","L","A","H",":"," ","5","0","0">>,
      <<"R","p"," ","5","0",".","0","0","0">>,
      <<"5","0","0","0">>,
      <<"R","p"," ","9","9">> }

\* date lines: day, month name and year; DD/MM/YYYY; YYYY-MM-DD; DD/MM/YY
IndoDays == { <<"0">>, <<"1">>, <<"2","9">>, <<"3","0">>, <<"3","1">> }
IndoMonths == { <<"O","k","t">>, <<"F","e","b">>, <<"A","p","r">>, <<"N","a","s","i">> }
IndoYears == { <<"2","0","2","5">>, <<"2","0","2","4">>, <<"1","9">>, <<"5","5">>,
               <<"1","9","0","0">> }
NumDays == { <<"0","0">>, <<"1","0">>, <<"2","9">>, <<"3","0">>, <<"3","1">> }
NumMonths == { <<"0","2">>, <<"0","4">>, <<"0","5">>, <<"1","3">> }
Years4 == { <<"2","0","2","3">>, <<"2","0","2","4">>, <<"1","9","0","0">>,
            <<"2","0","0","0">>, <<"2","0","2","5">> }
Years2 == { <<"1","9">>, <<"5","5">>, <<"6","8">>, <<"6","9">> }

IndoLines == {d \o <<" ">> \o m \o <<" ">> \o y : d \in IndoDays, m \in IndoMonths, y \in IndoYears}
DmyLines == {d \o <<"/">> \o m \o <<"/">> \o y : d \in NumDays, m \in NumMonths, y \in Years4}
IsoLines == {y \o <<"-">> \o m \o <<"-">> \o d : d \in NumDays, m \in NumMonths, y \in Years4}
ShortLines == {d \o <<"/">> \o m \o <<"/">> \o y : d \in NumDays, m \in NumMonths, y \in Years2}
\* "2 Nasi 25000": an item line with the shape of the month-name pattern
NasiLine == <<"2"," ","N","a","s","i"," ","2","5","0","0","0">>
DateLines == IndoLines \cup DmyLines \cup IsoLines \cup ShortLines \cup {NasiLine}

\* lines appended to a text: "30 Okt 2025", "10/05/19", "2025-02-30", "Total 50.000"
DateExtraLines ==
    { <<"3","0"," ","O","k","t"," ","2","0","2","5">>,
      <<"1","0","/","0","5","/","1","9">>,
      <<"2","0","2","5","-","0","2","-","3","0">>,
      <<"T","o","t","a","l"," ","5","0",".","0","0","0">> }

---------------------------------------------------------------------------
(* The state machine *)

NoCall == [op |-> "none", ocr |-> <<>>, receipt_url |-> <<>>, day |-> <<>>, out |-> <<>>]
DefaultSettings == [ocr_provider |-> "tesseract", google_vision_api_key |-> FALSE]
FirstDay == <<2025, 12, 31>>

\* the recognized text grows by one line
AppendLine(L) ==
    /\ LineCount(text) < MaxLines
    /\ text' = IF text = <<>> THEN L ELSE text \o <<NL>> \o L
    /\ call' = NoCall
    /\ prev' = NoCall
    /\ UNCHANGED <<settings, today>>

ExtractAmount ==
    /\ call' = [op |-> "extract_amount", out |-> extract_amount_via(text)]
    /\ prev' = NoCall
    /\ UNCHANGED <<text, settings, today>>

ExtractDate ==
    /\ call' = [op |-> "extract_date", out |-> extract_date_via(text)]
    /\ prev' = NoCall
    /\ UNCHANGED <<text, settings, today>>

InitAmount ==
    /\ text \in AmountLines \cup {<<>>}
    /\ settings = DefaultSettings
    /\ today = FirstDay
    /\ call = NoCall
    /\ prev = NoCall

AppendAmountLine == \E L \in AmountExtraLines : AppendLine(L)

NextAmount == AppendAmountLine \/ ExtractAmount

\* extract_amount applied to the amount texts
SpecAmount == InitAmount /\ [][NextAmount]_vars

---------------------------------------------------------------------------
(* Claims about extract_amount *)

AmountCalled == call.op = "extract_amount"

\* the in-range candidates of the i-th priority pattern in the text
PriorityAmounts(t, i) == AmountsOf(priority_patterns[i], NormalizeAmountText(t), Num100)
AllPriorityAmounts(t) == UNION {PriorityAmounts(t, i) : i \in 1..Len(priority_patterns)}
InAmountBounds(v) == NumLeq(Num100, v) /\ NumLeq(v, Num100Billion)

\* C1 as stated: the result is the maximum over the in-range candidates of ALL
\* priority patterns, whichever pattern matched them.
C1_MaxOverAllPatterns ==
    (AmountCalled /\ AllPriorityAmounts(text) # {})
        => call.out.amount = Some(NumMax(AllPriorityAmounts(text)))

\* C1 as the code has it: the result is the maximum over the in-range candidates
\* of the FIRST priority pattern, in list order, that has an in-range candidate;
\* the patterns after it are not consulted.
C1_MaxOfFirstYieldingPattern ==
    (AmountCalled /\ AllPriorityAmounts(text) # {})
        => \E i \in 1..Len(priority_patterns) :
              /\ PriorityAmounts(text, i) # {}
              /\ \A j \in 1..(i - 1) : PriorityAmounts(text, j) = {}
              /\ call.out.amount = Some(NumMax(PriorityAmounts(text, i)))

\* an earlier pattern matched a smaller valid value and a later pattern a larger one
C1_Witness ==
    /\ AmountCalled
    /\ \E i, j \in 1..Len(priority_patterns) :
          /\ i < j
          /\ PriorityAmounts(text, i) # {}
          /\ PriorityAmounts(text, j) # {}
          /\ NumMax(PriorityAmounts(text, i)) # NumMax(PriorityAmounts(text, j))
          /\ NumLeq(NumMax(PriorityAmounts(text, i)), NumMax(PriorityAmounts(text, j)))
          /\ call.out.amount = Some(NumMax(PriorityAmounts(text, i)))

\* every pattern of extract_amount with its lower bound, in the order tried
AllPatterns == priority_patterns \o fallback_patterns
LowerBound(i) == IF i <= Len(priority_patterns) THEN Num100 ELSE Num1000
PatternAmounts(t, i) == AmountsOf(AllPatterns[i], NormalizeAmountText(t), LowerBound(i))
\* the pattern that produces the amount of t
ProducingPattern(t) ==
    CHOOSE i \in 1..Len(AllPatterns) :
        /\ PatternAmounts(t, i) # {}
        /\ \A j \in 1..(i - 1) : PatternAmounts(t, j) = {}

\* the line L on its own holds a valid amount candidate
HasValidCandidate(L) == \E i \in 1..Len(AllPatterns) : PatternAmounts(L, i) # {}

\* the text is T + newline + L, T has an amount and L holds a valid candidate
AppendedCandidate ==
    /\ AmountCalled
    /\ LineCount(text) >= 2
    /\ HasValidCandidate(LastLine(text))
    /\ extract_amount(WithoutLastLine(text)) # None

\* C2 as stated: appending a line that holds a valid candidate never decreases
\* the amount.
C2_Monotonic ==
    AppendedCandidate =>
        /\ call.out.amount # None
        /\ NumLeq(extract_amount(WithoutLastLine(text))[1], call.out.amount[1])

\* C2 as the code has it: appending a line that holds a valid candidate never
\* makes the amount absent, and never decreases it unless the longer text has an
\* in-range candidate for a pattern tried before the one that produced the amount.
C2_MonotonicWithinPattern ==
    AppendedCandidate =>
        /\ call.out.amount # None
        /\ (\A j \in 1..(ProducingPattern(WithoutLastLine(text)) - 1) :
                PatternAmounts(text, j) = {})
            => NumLeq(extract_amount(WithoutLastLine(text))[1], call.out.amount[1])

\* a valid candidate of the same pattern was appended and the amount grew
C2_Witness ==
    /\ AppendedCandidate
    /\ ProducingPattern(text) = ProducingPattern(WithoutLastLine(text))
    /\ call.out.amount # None
    /\ call.out.amount # extract_amount(WithoutLastLine(text))
    /\ NumLeq(extract_amount(WithoutLastLine(text))[1], call.out.amount[1])

IsInteger(v) ==
    /\ Len(v) >= 1
    /\ \A i \in 1..Len(v) : v[i] \in DigitChars
    /\ (Len(v) > 1 => v[1] # "0")

\* C8: every amount returned is an integer within [100, 10^11], and one produced
\* by the fallback scan is at least 1000.
C8_AmountWithinBounds ==
    (AmountCalled /\ call.out.amount # None)
        => /\ IsInteger(call.out.amount[1])
           /\ InAmountBounds(call.out.amount[1])
           /\ (call.out.via = "fallback" => NumLeq(Num1000, call.out.amount[1]))

\* the fallback scan returned its least value, 1000, from the bare line "1.000"
C8_Witness ==
    /\ AmountCalled
    /\ text = <<"1",".","0","0","0">>
    /\ call.out = [amount |-> Some(Num1000), via |-> "fallback"]

\* C9: on the single line 'TOTAL: Rp N', N written with '.' separators and worth
\* a value in [100, 10^11], the amount is the value of N.
C9_TotalRpLine ==
    \A h \in Heads, g \in GroupDigits, k \in 0..MaxGroups :
        (/\ AmountCalled
         /\ text = TotalRp \o Grouped(h, g, k)
         /\ InAmountBounds(StripZeros(GroupedDigits(h, g, k))))
            => call.out.amount = Some(StripZeros(GroupedDigits(h, g, k)))

\* 'TOTAL: Rp 50.000' gave 50000
C9_Witness ==
    /\ AmountCalled
    /\ text = TotalRp \o <<"5","0",".","0","0","0">>
    /\ call.out.amount = Some(<<"5","0","0","0","0">>)

---------------------------------------------------------------------------
(* extract_date applied to the date texts *)

InitDate ==
    /\ text \in DateLines \cup {<<>>}
    /\ settings = DefaultSettings
    /\ today = FirstDay
    /\ call = NoCall
    /\ prev = NoCall

AppendDateLine == \E L \in DateExtraLines : AppendLine(L)

NextDate == AppendDateLine \/ ExtractDate

SpecDate == InitDate /\ [][NextDate]_vars

DateCalled == call.op = "extract_date"

\* <<y, m, d>> is a day of the calendar
IsCalendarDate(x) ==
    LET y == x[1]
        m == x[2]
        d == x[3]
        leap == (y % 4 = 0 /\ y % 100 # 0) \/ y % 400 = 0
    IN  /\ y >= 1
        /\ m >= 1 /\ m <= 12
        /\ d >= 1 /\ d <= 31
        /\ (m \in {4, 6, 9, 11} => d <= 30)
        /\ (m = 2 => d <= 29)
        /\ (m = 2 /\ d = 29 => leap)

\* C10: every date extract_date returns is a real calendar date.
C10_DateIsCalendarValid ==
    (DateCalled /\ call.out.date # None) => IsCalendarDate(call.out.date[1])

\* the leap day '29 Feb 2024' was returned as 2024-02-29
C10_Witness ==
    /\ DateCalled
    /\ text = <<"2","9"," ","F","e","b"," ","2","0","2","4">>
    /\ call.out.date = Some(<<2024, 2, 29>>)

---------------------------------------------------------------------------
(* perform_ocr, process_receipt_image and process_receipt *)

RawTextLimit == 1000
LegacyRawTextLimit == 500

KeyNotConfigured ==
    "Google Vision API key not configured. Set GOOGLE_VISION_API_KEY in .env file or switch to Tesseract (free)."
\* the two messages below are followed by the provider's own error text
VisionApiError == "Google Vision API error: "
TesseractError == "Tesseract OCR error: "

Returned(t, provider) == [raised |-> FALSE, text |-> t, provider |-> provider, error |-> ""]
Raised(error) == [raised |-> TRUE, text |-> <<>>, provider |-> "", error |-> error]

\* ocr_with_google_vision: `image` is the text the picture shows, `outcome`
\* what the HTTP exchange does
ocr_with_google_vision(image, outcome, config) ==
    IF ~config.google_vision_api_key THEN Raised(KeyNotConfigured)
    ELSE IF outcome = "fails" THEN Raised(VisionApiError)
    ELSE Returned(image, "google_vision")

ocr_with_tesseract(image, outcome) ==
    IF outcome = "fails" THEN Raised(TesseractError)
    ELSE Returned(image, "tesseract")

perform_ocr(image, outcome, config) ==
    IF config.ocr_provider = "google_vision"
    THEN ocr_with_google_vision(image, outcome, config)
    ELSE ocr_with_tesseract(image, outcome)

\* success = amount is not None
success_Always(amount) == TRUE
success(amount) == amount # None

\* The confidence, in tenths:
\* 0.9 if provider == "google_vision" and success else (0.7 if success else 0.0),
\* then min(confidence + 0.1, 1.0) if items
Min(a, b) == IF a < b THEN a ELSE b
Confidence_ProviderBonusAlways(provider, ok, items) ==
    Min(10, (IF ok THEN 7 ELSE 0) + (IF provider = "google_vision" THEN 2 ELSE 0)
            + (IF items # <<>> THEN 1 ELSE 0))
Confidence(provider, ok, items) ==
    LET confidence == IF provider = "google_vision" /\ ok THEN 9
                      ELSE IF ok THEN 7 ELSE 0
    IN  IF items # <<>> THEN Min(confidence + 1, 10) ELSE confidence

\* transaction_date or date.today()
DateOrToday_AlwaysToday(transaction_date, day) == day
DateOrToday(transaction_date, day) ==
    IF transaction_date # None THEN transaction_date[1] ELSE day

\* the value returned when perform_ocr returns no text
EmptyTextResult_NoDate(provider, day, receipt_url) ==
    [amount |-> None, merchant_name |-> None, transaction_date |-> None,
     items |-> <<>>, subtotal |-> None, tax |-> None, service_charge |-> None,
     raw_text |-> None, confidence |-> 0, receipt_url |-> receipt_url,
     success |-> FALSE, message |-> "Could not extract text from image",
     ocr_provider |-> provider]
EmptyTextResult(provider, day, receipt_url) ==
    [amount |-> None, merchant_name |-> None, transaction_date |-> day,
     items |-> <<>>, subtotal |-> None, tax |-> None, service_charge |-> None,
     raw_text |-> None, confidence |-> 0, receipt_url |-> receipt_url,
     success |-> FALSE, message |-> "Could not extract text from image",
     ocr_provider |-> provider]

\* the value returned by the except clause
ExceptResult(error, config, day, receipt_url) ==
    [amount |-> None, merchant_name |-> None, transaction_date |-> day,
     items |-> <<>>, subtotal |-> None, tax |-> None, service_charge |-> None,
     raw_text |-> None, confidence |-> 0, receipt_url |-> receipt_url,
     success |-> FALSE, message |-> error,
     ocr_provider |-> config.ocr_provider]

\* the value returned when the text is not empty
ExtractedResult(t, provider, day, receipt_url) ==
    With(extract_amount(t), LAMBDA amount :
    With(extract_items(t), LAMBDA items :
    With(extract_tax_and_service(t), LAMBDA tax_and_service :
        [amount |-> amount,
         merchant_name |-> extract_merchant(t),
         transaction_date |-> DateOrToday(extract_date(t), day),
         items |-> items,
         subtotal |-> extract_subtotal(t),
         tax |-> tax_and_service.tax,
         service_charge |-> tax_and_service.service,
         raw_text |-> Some(Take(t, RawTextLimit)),
         confidence |-> Confidence(provider, success(amount), items),
         receipt_url |-> receipt_url,
         success |-> success(amount),
         message |-> IF items # <<>>
                     THEN "Extracted " \o ToString(Len(items)) \o " items"
                     ELSE IF success(amount) THEN "Data extracted successfully"
                     ELSE "Could not extract amount from receipt",
         ocr_provider |-> provider])))

\* what a call gives its caller: a returned value or a raised exception
Return(result) == [raised |-> FALSE, result |-> result, error |-> ""]
Raise(error) == [raised |-> TRUE, result |-> <<>>, error |-> error]

process_receipt_image_NoExcept(ocr, config, day, receipt_url) ==
    IF ocr.raised THEN Raise(ocr.error)
    ELSE IF ocr.text = <<>> THEN Return(EmptyTextResult(ocr.provider, day, receipt_url))
    ELSE Return(ExtractedResult(ocr.text, ocr.provider, day, receipt_url))

\* process_receipt_image, given what perform_ocr did
process_receipt_image(ocr, config, day, receipt_url) ==
    IF ocr.raised THEN Return(ExceptResult(ocr.error, config, day, receipt_url))
    ELSE IF ocr.text = <<>> THEN Return(EmptyTextResult(ocr.provider, day, receipt_url))
    ELSE Return(ExtractedResult(ocr.text, ocr.provider, day, receipt_url))

process_receipt(t, day, receipt_url) ==
    With(extract_amount(t), LAMBDA amount :
        Return([amount |-> amount,
                merchant_name |-> extract_merchant(t),
                transaction_date |-> DateOrToday(extract_date(t), day),
                raw_text |-> IF t # <<>> THEN Some(Take(t, LegacyRawTextLimit)) ELSE None,
                confidence |-> IF success(amount) THEN 8 ELSE 0,
                receipt_url |-> receipt_url,
                success |-> success(amount),
                message |-> IF success(amount) THEN "Data extracted successfully"
                            ELSE "Could not extract amount from receipt"]))

---------------------------------------------------------------------------
(* The receipts *)

TotalLine == <<"T","O","T","A","L",":"," ","R","p"," ","5","0",".","0","0","0">>
EsTehLine == <<"E","s"," ","T","e","h"," "," "," "," ","5","0","0">>
NasiGorengLine == <<"N","a","s","i"," ","G","o","r","e","n","g"," "," "," "," ","2","5",".","0","0","0">>
OktLine == <<"3","0"," ","O","k","t"," ","2","0","2","5">>
WarungLine == <<"W","a","r","u","n","g"," ","S","e","d","e","r","h","a","n","a">>

ReceiptLines == {TotalLine, EsTehLine, NasiGorengLine, OktLine, WarungLine}
ReceiptExtraLines == {OktLine}

SettingsChoices ==
    { DefaultSettings,
      [ocr_provider |-> "google_vision", google_vision_api_key |-> FALSE],
      [ocr_provider |-> "google_vision", google_vision_api_key |-> TRUE] }
OcrOutcomes == {"ok", "fails"}
ReceiptUrls == {None, Some("https://storage/receipts/1.jpg")}

\* the day after a day
NextDay(day) ==
    IF day[3] < DaysInMonth(day[1], day[2]) THEN <<day[1], day[2], day[3] + 1>>
    ELSE IF day[2] < 12 THEN <<day[1], day[2] + 1, 1>>
    ELSE <<day[1] + 1, 1, 1>>

RECURSIVE DaysBetween(_, _)
DaysBetween(a, b) == IF a = b THEN 0 ELSE 1 + DaysBetween(NextDay(a), b)

Init ==
    /\ text \in ReceiptLines \cup {<<>>}
    /\ settings \in SettingsChoices
    /\ today = FirstDay
    /\ call = NoCall
    /\ prev = NoCall

AppendReceiptLine == \E L \in ReceiptExtraLines : AppendLine(L)

\* midnight passes: date.today() moves on
Tick ==
    /\ DaysBetween(FirstDay, today) < MaxTicks
    /\ today' = NextDay(today)
    /\ UNCHANGED <<text, settings, call, prev>>

\* the call before, kept when it was the same call on the same inputs
Before(op, ocr, receipt_url) ==
    IF call.op = op /\ call.ocr = ocr /\ call.receipt_url = receipt_url
    THEN call ELSE NoCall

\* a picture of the receipt is processed
ProcessReceiptImage ==
    \E outcome \in OcrOutcomes, receipt_url \in ReceiptUrls :
        \E ocr \in {perform_ocr(text, outcome, settings)} :
            /\ call' = [op |-> "process_receipt_image", ocr |-> ocr,
                        receipt_url |-> receipt_url, day |-> today,
                        out |-> process_receipt_image(ocr, settings, today, receipt_url)]
            /\ prev' = Before("process_receipt_image", ocr, receipt_url)
            /\ UNCHANGED <<text, settings, today>>

\* the text of the receipt is processed
ProcessReceipt ==
    \E receipt_url \in ReceiptUrls :
        /\ call' = [op |-> "process_receipt", ocr |-> Returned(text, ""),
                    receipt_url |-> receipt_url, day |-> today,
                    out |-> process_receipt(text, today, receipt_url)]
        /\ prev' = Before("process_receipt", Returned(text, ""), receipt_url)
        /\ UNCHANGED <<text, settings, today>>

Next == AppendReceiptLine \/ Tick \/ ProcessReceiptImage \/ ProcessReceipt

Spec == Init /\ [][Next]_vars

---------------------------------------------------------------------------
(* Properties of process_receipt_image and process_receipt *)

ImageCalled == call.op = "process_receipt_image"
ReceiptCalled == call.op = "process_receipt"
Processed == ImageCalled \/ ReceiptCalled

\* the last two calls were the same operation on the same recognized text,
\* provider tag and receipt_url, and the provider returned
Repeated == Processed /\ prev.op = call.op /\ ~call.ocr.raised

\* the date the recognized text of the last call carries
DateOfText ==
    IF call.ocr.text = <<>> THEN None ELSE extract_date(call.ocr.text)

WithoutDate(result) == [result EXCEPT !.transaction_date = None]

\* C3 as stated: two calls on the same recognized text and provider tag return
\* the same result in every field, transaction_date included, whenever made.
C3_Deterministic ==
    Repeated => prev.out = call.out

\* C3: two calls on the same recognized text and provider tag return results
\* equal in every field but transaction_date; transaction_date is the date of
\* the text when the text carries one, and otherwise the day of each call.
C3_DeterministicButForToday ==
    Repeated =>
        /\ ~prev.out.raised /\ ~call.out.raised
        /\ WithoutDate(prev.out.result) = WithoutDate(call.out.result)
        /\ IF DateOfText # None
           THEN /\ prev.out.result.transaction_date = DateOfText[1]
                /\ call.out.result.transaction_date = DateOfText[1]
           ELSE /\ prev.out.result.transaction_date = prev.day
                /\ call.out.result.transaction_date = call.day

\* 'Warung Sederhana' was processed on two days and the two results carry
\* the two days
C3_Witness ==
    /\ Repeated
    /\ call.ocr.text = WarungLine
    /\ prev.day = FirstDay
    /\ call.day = NextDay(FirstDay)
    /\ prev.out.result.transaction_date = FirstDay
    /\ call.out.result.transaction_date = NextDay(FirstDay)

\* the provider returned an empty text to process_receipt_image
EmptyTextCalled == ImageCalled /\ ~call.ocr.raised /\ call.ocr.text = <<>>

EmptyTextCommon ==
    /\ ~call.out.raised
    /\ call.out.result.success = FALSE
    /\ call.out.result.confidence = 0
    /\ call.out.result.items = <<>>
    /\ call.out.result.message # ""
    /\ call.out.result.amount = None
    /\ call.out.result.merchant_name = None
    /\ call.out.result.subtotal = None
    /\ call.out.result.tax = None
    /\ call.out.result.service_charge = None
    /\ call.out.result.raw_text = None

\* C4 as stated: on an empty recognized text the result has success false,
\* confidence 0.0, no items, a message, and every optional field absent,
\* the transaction date among them.
C4_EmptyTextAllAbsent ==
    EmptyTextCalled =>
        EmptyTextCommon /\ call.out.result.transaction_date = None

\* C4: on an empty recognized text the result has success false, confidence
\* 0.0, no items, a message, amount, merchant, subtotal, tax, service charge
\* and raw text absent, and the day of the call as transaction date.
C4_EmptyTextShortCircuit ==
    EmptyTextCalled =>
        EmptyTextCommon /\ call.out.result.transaction_date = call.day

C4_Witness ==
    /\ EmptyTextCalled
    /\ call.out.result.message = "Could not extract text from image"
    /\ call.out.result.transaction_date = today

\* C5: process_receipt_image returns a value whatever the provider does, and
\* when the provider raised the value has success false, no amount, no items,
\* confidence 0.0 and the text of the error as message.
C5_NeverRaises ==
    ImageCalled =>
        /\ ~call.out.raised
        /\ call.ocr.raised =>
            /\ call.out.result.success = FALSE
            /\ call.out.result.amount = None
            /\ call.out.result.items = <<>>
            /\ call.out.result.confidence = 0
            /\ call.out.result.message = call.ocr.error

\* Google Vision was configured without a key and the call returned the
\* error as message
C5_Witness ==
    /\ ImageCalled
    /\ call.ocr.raised
    /\ ~call.out.raised
    /\ call.out.result.message = KeyNotConfigured
    /\ call.out.result.success = FALSE

\* the three terms of the confidence, in tenths, read off a result
Base(result) == IF result.amount # None THEN 7 ELSE 0
ItemsBonus(result) == IF result.items # <<>> THEN 1 ELSE 0
IsGoogle(result) == result.ocr_provider = "google_vision"

\* C6 as stated: confidence = min(1.0, base + provider bonus + items bonus),
\* the provider bonus being 0.2 for google_vision whether or not an amount
\* was found.
C6_ProviderBonusIndependent ==
    (ImageCalled /\ ~call.out.raised) =>
        call.out.result.confidence =
            Min(10, Base(call.out.result)
                    + (IF IsGoogle(call.out.result) THEN 2 ELSE 0)
                    + ItemsBonus(call.out.result))

\* C6: confidence = min(1.0, base + provider bonus + items bonus), the
\* provider bonus being 0.2 for google_vision only when an amount was found.
C6_ProviderBonusNeedsAmount ==
    (ImageCalled /\ ~call.out.raised) =>
        call.out.result.confidence =
            Min(10, Base(call.out.result)
                    + (IF IsGoogle(call.out.result) /\ call.out.result.amount # None
                       THEN 2 ELSE 0)
                    + ItemsBonus(call.out.result))

\* Google Vision read 'Es Teh    500': an item, no amount, confidence 0.1
C6_Witness ==
    /\ ImageCalled
    /\ ~call.ocr.raised
    /\ call.ocr.provider = "google_vision"
    /\ call.ocr.text = EsTehLine
    /\ call.out.result.amount = None
    /\ call.out.result.items # <<>>
    /\ call.out.result.confidence = 1

\* C7: in every result of process_receipt_image and of process_receipt,
\* success is true exactly when amount is present.
C7_SuccessIffAmount ==
    (Processed /\ ~call.out.raised) =>
        (call.out.result.success <=> call.out.result.amount # None)

\* process_receipt found 50000 on 'TOTAL: Rp 50.000' and reported success
C7_Witness ==
    /\ ReceiptCalled
    /\ call.ocr.text = TotalLine
    /\ call.out.result.success
    /\ call.out.result.amount = Some(<<"5","0","0","0","0">>)

---------------------------------------------------------------------------
(* The 2-digit year *)

\* the year group of the match that produced the date of the last call
YearGroup ==
    IF call.out.via = "indo" THEN Search(indo_pattern, text, 1).groups[3]
    ELSE Search(date_patterns[3], text, 1).groups[3]

\* a date was produced by a grammar that accepts a 2-digit year, from one
TwoDigitYearCalled ==
    /\ DateCalled
    /\ call.out.date # None
    /\ call.out.via \in {"indo", "%d-%m-%y"}
    /\ Len(YearGroup) = 2

Pivot50(yy) == IF yy < 50 THEN 2000 + yy ELSE 1900 + yy

\* C11 as stated: in the month-name grammar and in the DD/MM/YY grammar a
\* 2-digit year yy becomes 2000+yy when yy < 50 and 1900+yy when yy >= 50.
C11_Pivot50 ==
    TwoDigitYearCalled => call.out.date[1][1] = Pivot50(IntOf(YearGroup))

\* '10/05/55' was read by the DD/MM/YY grammar as 2055-05-10
C11_Witness ==
    /\ TwoDigitYearCalled
    /\ text = <<"1","0","/","0","5","/","5","5">>
    /\ call.out.via = "%d-%m-%y"
    /\ call.out.date = Some(<<2055, 5, 10>>)

---------------------------------------------------------------------------
(* extract_merchant applied to transfer confirmations and shop receipts *)

LongNameLen == 89

RecipientLabels == { <<"T","u","j","u","a","n">>, <<"P","e","n","e","r","i","m","a">>, <<"K","E","P","A","D","A">> }
RecipientSeps == { <<":"," ">>, <<":">>, <<" ">> }
RecipientNames == { <<"J","o","h","n"," ","D","o","e">>, <<"A","l">>, <<"B","u","d","i">>, <<"S","i","t","i"," ","N","u","r"," ","A","i","n","i">> }
RecipientLines == {l \o sep \o n : l \in RecipientLabels, sep \in RecipientSeps, n \in RecipientNames}
\* "Tujuan: AAA...A"
LongName == [i \in 1..LongNameLen |-> "A"]
LongNameLine == <<"T","u","j","u","a","n",":"," ">> \o LongName
BniLine == <<"B","N","I">>
TransferBerhasilLine == <<"T","r","a","n","s","f","e","r"," ","B","e","r","h","a","s","i","l">>
JalanLine == <<"J","l","."," ","M","e","r","d","e","k","a"," ","N","o","."," ","1">>
SevenElevenLine == <<"7","-","E","l","e","v","e","n"," ","S","t","o","r","e">>
KopiLine == <<"K","o","p","i">>
\* a numeric line, then blank lines, then a shop name as the 6th (5th) line
FiveBlankText == <<"1","2","3","\n","\n","\n","\n","\n","W","a","r","u","n","g"," ","S","e","d","e","r","h","a","n","a">>
FourBlankText == <<"1","2","3","\n","\n","\n","\n","W","a","r","u","n","g"," ","S","e","d","e","r","h","a","n","a">>
\* lines that classify the text as a transfer and name no recipient or bank
TransaksiBerhasilLine == <<"T","r","a","n","s","a","k","s","i"," ","B","e","r","h","a","s","i","l">>
SumberDanaLine == <<"S","u","m","b","e","r"," ","D","a","n","a">>
RefIdLine == <<"R","e","f"," ","I","D"," ","1","2","3","4","5">>
MerchantLines ==
    RecipientLines \cup {LongNameLine, BniLine, TransferBerhasilLine, WarungLine, JalanLine, OktLine,
                         SevenElevenLine, KopiLine, FiveBlankText, FourBlankText,
                         TransaksiBerhasilLine, SumberDanaLine, RefIdLine}
MerchantExtraLines == {BniLine, TransferBerhasilLine, WarungLine, <<"T","u","j","u","a","n",":"," ","J","o","h","n"," ","D","o","e">>}

ExtractMerchant ==
    /\ call' = [op |-> "extract_merchant", out |-> extract_merchant(text)]
    /\ prev' = NoCall
    /\ UNCHANGED <<text, settings, today>>

InitMerchant ==
    /\ text \in MerchantLines \cup {<<>>}
    /\ settings = DefaultSettings
    /\ today = FirstDay
    /\ call = NoCall
    /\ prev = NoCall

AppendMerchantLine == \E L \in MerchantExtraLines : AppendLine(L)

NextMerchant == AppendMerchantLine \/ ExtractMerchant

SpecMerchant == InitMerchant /\ [][NextMerchant]_vars

MerchantCalled == call.op = "extract_merchant"

\* the text is classified as a transfer confirmation
TransferClassified == ContainsAny(Lower(text), transfer_keywords)

\* the first line of the text is the labelled recipient field of name n
FirstLineNames(n) ==
    /\ text # <<>>
    /\ \E l \in RecipientLabels, sep \in RecipientSeps : Split(text)[1] = l \o sep \o n

\* C12 as stated: a transfer-classified text with a labelled recipient field
\* of a name longer than 2 characters gives 'Transfer to <name>'.
C12_TransferToName ==
    MerchantCalled =>
        \A n \in RecipientNames :
            (TransferClassified /\ FirstLineNames(n) /\ Len(n) > 2)
                => call.out = Some(TransferTo \o n)

TransferKePrefix == <<"T","r","a","n","s","f","e","r"," ","k","e"," ">>

\* C12: a transfer-classified text with a labelled recipient field of a name
\* longer than 2 characters gives 'Transfer ke <name>'.
C12_TransferKeName ==
    MerchantCalled =>
        \A n \in RecipientNames :
            (TransferClassified /\ FirstLineNames(n) /\ Len(n) > 2)
                => call.out = Some(TransferKePrefix \o n)

\* 'Penerima: John Doe' followed by the line 'BNI' gave 'Transfer ke John Doe'
C12_Witness ==
    /\ MerchantCalled
    /\ text = <<"P","e","n","e","r","i","m","a",":"," ","J","o","h","n"," ","D","o","e">> \o <<NL>> \o <<"B","N","I">>
    /\ TransferClassified
    /\ call.out = Some(<<"T","r","a","n","s","f","e","r"," ","k","e"," ","J","o","h","n"," ","D","o","e">>)

\* C13 as stated: the merchant extract_merchant returns is absent or has at
\* most 100 characters, whichever path produced it.
C13_MerchantAtMost100 ==
    (MerchantCalled /\ call.out # None) => Len(call.out[1]) <= 100

\* 'Tujuan: ' and a name of 89 letters gave 'Transfer ke ' and the whole name
C13_Witness ==
    /\ MerchantCalled
    /\ text = LongNameLine
    /\ call.out = Some(TransferKePrefix \o LongName)
    /\ Len(call.out[1]) > 100

---------------------------------------------------------------------------
(* extract_items applied to item lines *)

\* '<name><gap><price>' lines
GapNames == { <<"N","a","s","i"," ","G","o","r","e","n","g">>, <<"E","s">>, <<"T","e","h">>, <<"1","2","3">>, <<"T","O","T","A","L">>, <<"C","a","s","h">> }
Gaps == { <<" "," ">>, <<" "," "," "," ">> }
GapPrices == { <<"2","5",".","0","0","0">>, <<"9","9">>, <<"1","0","0">>, <<"1","0","0",".","0","0","0",".","0","0","0">>, <<"1","0","0",".","0","0","0",".","0","0","1">>, <<"5",",","0","0","0">> }
\* '<qty> x <name> @ <unit price><tail>' lines
QtyNumbers == { <<"2">>, <<"0">> }
QtyMarks == { <<" ","x"," ">>, <<"x">> }
QtyNames == { <<"N","a","s","i">>, <<"E","s">> }
UnitPrices == { <<"1","5",".","0","0","0">>, <<"5","0">>, <<"5",".","0","0","0">>, <<"6","0",".","0","0","0",".","0","0","0">> }
QtyTails == { <<>>, <<" ","="," ","3","0",".","0","0","0">>, <<" "," "," "," ","3","0",".","0","0","0">>, <<" ","="," ","5",".","0","0","0">> }
QtyHeads == {q \o m \o n \o <<" ","@"," ">> \o u : q \in QtyNumbers, m \in QtyMarks, n \in QtyNames, u \in UnitPrices}
\* '<name> <qty> @ <unit price>' lines
AfterNames == { <<"N","a","s","i"," ","G","o","r","e","n","g">>, <<"E","s">> }
AfterMarks == { <<" ","@"," ">>, <<"x">> }

GapLines == {n \o g \o p : n \in GapNames, g \in Gaps, p \in GapPrices}
QtyLines == {h \o tail : h \in QtyHeads, tail \in QtyTails}
AfterLines == {n \o <<" ">> \o q \o m \o u : n \in AfterNames, q \in QtyNumbers, m \in AfterMarks, u \in UnitPrices}
RpLine == <<"N","a","s","i"," ","G","o","r","e","n","g"," "," "," ","R","p"," ","2","5",".","0","0","0">>
TotalGapLine == <<"T","O","T","A","L"," "," "," "," ","1","0","0",".","0","0","0">>
EsLine == <<"2"," ","x"," ","E","s"," ","@"," ","5",".","0","0","0">>
\* '<name>  <qty> x  <unit price>' lines: a gap before the quantity and before
\* the unit price
FallNames == { <<"P","e","r","m","e","n">>, <<"E","s">> }
FallQtys == { <<"1","0">>, <<"1">> }
FallMarks == { <<" ","x"," "," ">>, <<" ","@"," "," ">> }
FallUnits == { <<"5","0">>, <<"5">> }
FallLines == {n \o <<" "," ">> \o q \o m \o u : n \in FallNames, q \in FallQtys, m \in FallMarks, u \in FallUnits}
\* '<name> Rp <price>' and '<name> IDR <price>' lines
CurrencyNames == { <<"N","a","s","i"," ","G","o","r","e","n","g">>, <<"E","s">> }
CurrencyMarks == { <<" "," "," ","R","p"," ">>, <<" ","I","D","R"," ">>, <<" ","R","p">>, <<" ","r","p","."," ">> }
CurrencyPrices == { <<"2","5",".","0","0","0">>, <<"5","0">> }
CurrencyLines == {n \o m \o p : n \in CurrencyNames, m \in CurrencyMarks, p \in CurrencyPrices}
ItemLines == GapLines \cup QtyLines \cup AfterLines \cup FallLines \cup CurrencyLines \cup {RpLine, WarungLine}
ItemExtraLines == {NasiGorengLine, TotalGapLine, EsLine}

ExtractItems ==
    /\ call' = [op |-> "extract_items", out |-> extract_items(text)]
    /\ prev' = NoCall
    /\ UNCHANGED <<text, settings, today>>

InitItems ==
    /\ text \in ItemLines \cup {<<>>}
    /\ settings = DefaultSettings
    /\ today = FirstDay
    /\ call = NoCall
    /\ prev = NoCall

AppendItemLine == \E L \in ItemExtraLines : AppendLine(L)

NextItems == AppendItemLine \/ ExtractItems

SpecItems == InitItems /\ [][NextItems]_vars

ItemsCalled == call.op = "extract_items"
\* the lines of the text
TextLines == Split(Strip(text))

\* C14: every item extract_items returns has 100 <= total_price <= 100,000,000,
\* a total computed as quantity x unit price included.
C14_TotalPriceInRange ==
    ItemsCalled =>
        \A i \in 1..Len(call.out) :
            /\ NumLeq(<<"1","0","0">>, call.out[i].total_price)
            /\ NumLeq(call.out[i].total_price, <<"1","0","0","0","0","0","0","0","0">>)

\* '2 x Es @ 5.000' gave an item of total 2 x 5000 = 10000
C14_Witness ==
    /\ ItemsCalled
    /\ text = EsLine
    /\ Len(call.out) = 1
    /\ call.out[1].unit_price = Some(<<"5","0","0","0">>)
    /\ call.out[1].total_price = <<"1","0","0","0","0">>

\* the items of the lines i.. of the text, each line taken as a text of its own
RECURSIVE ItemsLineByLine(_)
ItemsLineByLine(i) ==
    IF i > Len(TextLines) THEN <<>>
    ELSE extract_items(TextLines[i]) \o ItemsLineByLine(i + 1)

\* C15: no line contributes more than one item: the items are at most as many
\* as the lines, and they are the items of the single lines, at most one
\* each, in the order of the lines.
C15_OneItemPerLine ==
    ItemsCalled =>
        /\ Len(call.out) <= Len(TextLines)
        /\ \A i \in 1..Len(TextLines) : Len(extract_items(TextLines[i])) <= 1
        /\ call.out = ItemsLineByLine(1)

\* '2 x Nasi @ 15.000    30.000', which two grammars match, followed by
\* 'Nasi Goreng    25.000' gave two items in the order of the lines
C15_Witness ==
    /\ ItemsCalled
    /\ Len(TextLines) = 2
    /\ TextLines[2] = NasiGorengLine
    /\ \E h \in QtyHeads : TextLines[1] = h \o <<" "," "," "," ","3","0",".","0","0","0">>
    /\ Len(call.out) = 2
    /\ call.out[1].total_price = <<"3","0","0","0","0">>
    /\ call.out[2].total_price = <<"2","5","0","0","0">>

\* deny-keywords named by C16
DenyWords == << <<"t","o","t","a","l">>, <<"s","u","b","t","o","t","a","l">>, <<"t","a","x">>, <<"p","a","y","m","e","n","t">>, <<"c","a","s","h">>, <<"c","h","a","n","g","e">> >>
HasDenyWord(line) == ContainsAny(Lower(line), DenyWords)

\* the items of the lines i.. of the text that hold no deny-keyword
RECURSIVE ItemsOfAllowedLines(_)
ItemsOfAllowedLines(i) ==
    IF i > Len(TextLines) THEN <<>>
    ELSE (IF HasDenyWord(TextLines[i]) THEN <<>> ELSE extract_items(TextLines[i]))
         \o ItemsOfAllowedLines(i + 1)

\* C16: no item comes from a line that contains a deny-keyword, in any case,
\* even when the line matches an item grammar: such a line alone gives no
\* item, and the items of a text are those of its other lines.
C16_NoItemFromDenyLine ==
    ItemsCalled =>
        /\ \A i \in 1..Len(TextLines) :
              HasDenyWord(TextLines[i]) => extract_items(TextLines[i]) = <<>>
        /\ call.out = ItemsOfAllowedLines(1)

\* 'Nasi Goreng    25.000' followed by 'TOTAL    100.000' gave the one item
\* Nasi Goreng
C16_Witness ==
    /\ ItemsCalled
    /\ text = NasiGorengLine \o <<NL>> \o TotalGapLine
    /\ HasDenyWord(TextLines[2])
    /\ Len(call.out) = 1
    /\ call.out[1].name = <<"N","a","s","i"," ","G","o","r","e","n","g">>

\* C17 as stated: every item has a name longer than 2 characters, whichever
\* grammar produced it.
C17_NameLongerThan2 ==
    ItemsCalled => \A i \in 1..Len(call.out) : Len(call.out[i].name) > 2

\* C17: an item without unit price (the gap and the currency grammars) has a
\* name longer than 2 characters, an item with quantity and unit price (the
\* two quantity grammars) a name longer than 1 character.
C17_NameLengthByGrammar ==
    ItemsCalled =>
        \A i \in 1..Len(call.out) :
            /\ Len(call.out[i].name) > 1
            /\ call.out[i].unit_price = None => Len(call.out[i].name) > 2

\* '2 x Es @ 5.000' gave the item Es
C17_Witness ==
    /\ ItemsCalled
    /\ text = EsLine
    /\ Len(call.out) = 1
    /\ call.out[1].name = <<"E","s">>
    /\ call.out[1].quantity = <<"2">>

\* C18 as stated: every item has a quantity of at least 1.
C18_QuantityPositive ==
    ItemsCalled =>
        \A i \in 1..Len(call.out) : NumLeq(<<"1">>, call.out[i].quantity)

\* '0 x Nasi @ 5.000 = 5.000' gave the item Nasi with quantity 0
C18_Witness ==
    /\ ItemsCalled
    /\ text = <<"0"," ","x"," ","N","a","s","i"," ","@"," ","5",".","0","0","0"," ","="," ","5",".","0","0","0">>
    /\ Len(call.out) = 1
    /\ call.out[1].name = <<"N","a","s","i">>
    /\ call.out[1].quantity = <<"0">>
    /\ call.out[1].total_price = <<"5","0","0","0">>

\* the names, gaps and prices of the '<name><gap><price>' lines of the texts:
\* a '<qty> x <name> @ <unit price>' head followed by a gap and a price is one
GapLineNames == GapNames \cup QtyHeads
GapLinePrices == GapPrices \cup { <<"3","0",".","0","0","0">> }

\* the set of the lines of the text
LinesOfText == { TextLines[i] : i \in 1..Len(TextLines) }

\* line is name, gap, price with a name longer than 2 characters, no
\* deny-keyword and a price within [100, 100,000,000]
IsGapLine(line, n, g, p) ==
    /\ line = n \o g \o p
    /\ Len(n) > 2
    /\ ~ContainsAny(Lower(line), skip_keywords)
    /\ NumLeq(<<"1","0","0">>, Decimal(RemoveSeparators(p)))
    /\ NumLeq(Decimal(RemoveSeparators(p)), <<"1","0","0","0","0","0","0","0","0">>)

\* the item of name n and price p: quantity 1 and no unit price
GapItem(n, p) ==
    [name |-> n, quantity |-> <<"1">>, unit_price |-> None,
     total_price |-> Decimal(RemoveSeparators(p))]

\* the line alone yields exactly the item, and the item is among those returned
YieldsGapItem(line, n, p) ==
    /\ extract_items(line) = <<GapItem(n, p)>>
    /\ \E j \in 1..Len(call.out) : call.out[j] = GapItem(n, p)

\* C19 as stated: every line '<name><two or more spaces><price>' with a name
\* longer than 2 characters, no deny-keyword and a price in range yields
\* exactly the item {name, 1, no unit price, price}.
C19_GapLineYieldsItem ==
    ItemsCalled =>
        \A line \in LinesOfText :
            \A n \in GapLineNames, g \in Gaps, p \in GapLinePrices :
                IsGapLine(line, n, g, p) => YieldsGapItem(line, n, p)

\* C19: every such line that has a character other than digits, blanks and
\* . , - = * yields exactly the item {name, 1, no unit price, price}.
C19_GapLineWithTextYieldsItem ==
    ItemsCalled =>
        \A line \in LinesOfText :
            \A n \in GapLineNames, g \in Gaps, p \in GapLinePrices :
                (IsGapLine(line, n, g, p) /\ ~OnlyNumbersOrSymbols(line))
                    => YieldsGapItem(line, n, p)

\* 'Nasi Goreng    25.000' gave {Nasi Goreng, 1, 25000}
C19_Witness ==
    /\ ItemsCalled
    /\ text = NasiGorengLine
    /\ IsGapLine(text, <<"N","a","s","i"," ","G","o","r","e","n","g">>, <<" "," "," "," ">>, <<"2","5",".","0","0","0">>)
    /\ call.out = <<GapItem(<<"N","a","s","i"," ","G","o","r","e","n","g">>, <<"2","5",".","0","0","0">>)>>
    /\ call.out[1].total_price = <<"2","5","0","0","0">>

\* the tails that carry a total: '= total' or a gap and the total
TotalTails == QtyTails \ { <<>> }

\* line is 'qty x name @ unit_price [=] total'
IsQtyLine(line, q, m, n, u, tl) ==
    line = q \o m \o n \o <<" ","@"," ">> \o u \o tl

\* an item of the quantity, name and unit price written on the line is returned
YieldsQtyItem(q, n, u) ==
    \E j \in 1..Len(call.out) :
        /\ call.out[j].name = n
        /\ call.out[j].quantity = q
        /\ call.out[j].unit_price = Some(Decimal(RemoveSeparators(u)))

\* C20: every line 'qty x name @ unit_price [=] total' yields an item with
\* quantity = qty, name = name and unit_price = unit_price, even when the line
\* also matches the 'name, gap of two or more spaces, trailing price' grammar.
C20_QuantityGrammarFirst ==
    ItemsCalled =>
        \A line \in LinesOfText :
            \A q \in QtyNumbers, m \in QtyMarks, n \in QtyNames,
               u \in UnitPrices, tl \in TotalTails :
                IsQtyLine(line, q, m, n, u, tl) => YieldsQtyItem(q, n, u)

\* the same for the lines whose total follows '=': no gap, one grammar only
C20_QuantityGrammarWithEquals ==
    ItemsCalled =>
        \A line \in LinesOfText :
            \A q \in QtyNumbers, m \in QtyMarks, n \in QtyNames,
               u \in UnitPrices, tl \in { <<" ","="," ","3","0",".","0","0","0">>, <<" ","="," ","5",".","0","0","0">> } :
                IsQtyLine(line, q, m, n, u, tl) => YieldsQtyItem(q, n, u)

\* '2 x Nasi @ 15.000    30.000' gave {2 x Nasi @ 15.000, 1, no unit price, 30000}
C20_Witness ==
    /\ ItemsCalled
    /\ text = <<"2"," ","x"," ","N","a","s","i"," ","@"," ","1","5",".","0","0","0"," "," "," "," ","3","0",".","0","0","0">>
    /\ IsQtyLine(text, <<"2">>, <<" ","x"," ">>, <<"N","a","s","i">>, <<"1","5",".","0","0","0">>, <<" "," "," "," ","3","0",".","0","0","0">>)
    /\ Len(call.out) = 1
    /\ call.out[1].name = <<"2"," ","x"," ","N","a","s","i"," ","@"," ","1","5",".","0","0","0">>
    /\ call.out[1].quantity = <<"1">>
    /\ call.out[1].unit_price = None
    /\ call.out[1].total_price = <<"3","0","0","0","0">>

---------------------------------------------------------------------------
(* A line whose first matching grammar fails its check *)

\* line is name, gap, qty, mark, unit price: pattern 1 matches it with the
\* unit price as the price, which lies below 100
IsFallLine(line, n, q, m, u) ==
    /\ line = n \o <<" "," ">> \o q \o m \o u
    /\ ~NumLeq(<<"1","0","0">>, Decimal(u))

\* the item of pattern 3 for the line: qty items of the unit price
FallItem(n, q, u) ==
    [name |-> n, quantity |-> q, unit_price |-> Some(Decimal(u)),
     total_price |-> NumMul(Decimal(u), q)]

\* qty times the unit price lies within [100, 100,000,000]
FallTotalInRange(q, u) ==
    /\ NumLeq(<<"1","0","0">>, NumMul(Decimal(u), q))
    /\ NumLeq(NumMul(Decimal(u), q), <<"1","0","0","0","0","0","0","0","0">>)

\* C21 as stated: when the first grammar that matches a line fails its check
\* (here the gap grammar, with a price below 100), the line yields no item.
C21_NoLaterGrammar ==
    ItemsCalled =>
        \A line \in LinesOfText :
            \A n \in FallNames, q \in FallQtys, m \in FallMarks, u \in FallUnits :
                IsFallLine(line, n, q, m, u) => extract_items(line) = <<>>

\* C21: when the gap grammar matches a line and fails its check, the later
\* grammars are tried: the line '<name>  <qty> x  <unit>' yields the item
\* {name, qty, unit, qty * unit} when the name is longer than 1 character and
\* qty * unit is in range, and no item otherwise.
C21_LaterGrammarTried ==
    ItemsCalled =>
        \A line \in LinesOfText :
            \A n \in FallNames, q \in FallQtys, m \in FallMarks, u \in FallUnits :
                IsFallLine(line, n, q, m, u) =>
                    IF FallTotalInRange(q, u) /\ Len(n) > 1
                    THEN /\ extract_items(line) = <<FallItem(n, q, u)>>
                         /\ \E j \in 1..Len(call.out) : call.out[j] = FallItem(n, q, u)
                    ELSE extract_items(line) = <<>>

\* 'Permen  10 x  50' gave {Permen, 10, 50, 500}
C21_Witness ==
    /\ ItemsCalled
    /\ text = <<"P","e","r","m","e","n"," "," ","1","0"," ","x"," "," ","5","0">>
    /\ IsFallLine(text, <<"P","e","r","m","e","n">>, <<"1","0">>, <<" ","x"," "," ">>, <<"5","0">>)
    /\ Len(call.out) = 1
    /\ call.out[1].name = <<"P","e","r","m","e","n">>
    /\ call.out[1].quantity = <<"1","0">>
    /\ call.out[1].unit_price = Some(<<"5","0">>)
    /\ call.out[1].total_price = <<"5","0","0">>

---------------------------------------------------------------------------
(* Lines with a currency-prefixed price *)

\* the currency words of pattern 4, in lower case
CurrencyWords == { <<"r","p">>, <<"i","d","r">> }

\* line is name, currency mark, price with a name longer than 2 characters, a
\* price within [100, 100,000,000] and no deny-keyword but the currency word
IsCurrencyLine(line, n, m, p) ==
    /\ line = n \o m \o p
    /\ Len(n) > 2
    /\ NumLeq(<<"1","0","0">>, Decimal(RemoveSeparators(p)))
    /\ NumLeq(Decimal(RemoveSeparators(p)), <<"1","0","0","0","0","0","0","0","0">>)
    /\ \A i \in 1..Len(skip_keywords) :
           skip_keywords[i] \notin CurrencyWords => ~Contains(Lower(line), skip_keywords[i])

\* C22: a line '<name> Rp <price>' or '<name> IDR <price>' with a name longer
\* than 2 characters, no other deny-keyword and a price in range yields an
\* item with that name, quantity 1 and total_price = price.
C22_CurrencyLineYieldsItem ==
    ItemsCalled =>
        \A line \in LinesOfText :
            \A n \in CurrencyNames, m \in CurrencyMarks, p \in CurrencyPrices :
                IsCurrencyLine(line, n, m, p) =>
                    \E j \in 1..Len(call.out) :
                        /\ call.out[j].name = n
                        /\ call.out[j].quantity = <<"1">>
                        /\ call.out[j].total_price = Decimal(RemoveSeparators(p))

\* no line with a currency word yields an item
CurrencyLinesYieldNothing ==
    ItemsCalled =>
        \A line \in LinesOfText :
            (\E w \in CurrencyWords : Contains(Lower(line), w)) => extract_items(line) = <<>>

\* 'Nasi Goreng   Rp 25.000' gave no item
C22_Witness ==
    /\ ItemsCalled
    /\ text = RpLine
    /\ IsCurrencyLine(text, <<"N","a","s","i"," ","G","o","r","e","n","g">>, <<" "," "," ","R","p"," ">>, <<"2","5",".","0","0","0">>)
    /\ call.out = <<>>

---------------------------------------------------------------------------
(* extract_tax_and_service applied to tax and service lines *)

\* lines of a label, a separator, an optional percentage rate and a value
ChargeLabels == { <<"t","a","x">>, <<"P","P","N">>, <<"S","e","r","v","i","c","e">>, <<"s","c">> }
ChargeSeps == { <<":"," ">>, <<" ">> }
ChargeRates == { <<>>, <<"1","0","%"," ">>, <<"5","%"," ">> }
ChargeValues == { <<"0">>, <<"5",".","0","0","0">>, <<"9","9",".","9","9","9",".","9","9","9">>, <<"2",".","5","0","0">>, <<"1","0",".","0","0","0",".","0","0","0">> }
ChargeLines == {l \o s \o r \o v : l \in ChargeLabels, s \in ChargeSeps, r \in ChargeRates, v \in ChargeValues}
PpnRateLine == <<"p","p","n"," ","1","0","%"," ","3","0","0">>
ServiceLine == <<"S","e","r","v","i","c","e",":"," ","1",".","0","0","0">>
ChargeExtraLines == {PpnRateLine, ServiceLine}

ExtractTaxAndService ==
    /\ call' = [op |-> "extract_tax_and_service", out |-> extract_tax_and_service(text)]
    /\ prev' = NoCall
    /\ UNCHANGED <<text, settings, today>>

InitTax ==
    /\ text \in ChargeLines \cup {<<>>}
    /\ settings = DefaultSettings
    /\ today = FirstDay
    /\ call = NoCall
    /\ prev = NoCall

AppendChargeLine == \E L \in ChargeExtraLines : AppendLine(L)

NextTax == AppendChargeLine \/ ExtractTaxAndService

SpecTax == InitTax /\ [][NextTax]_vars

TaxCalled == call.op = "extract_tax_and_service"

\* 0 < v < 10,000,000
ChargeInRange(v) == v # <<"0">> /\ NumLeq(v, <<"9","9","9","9","9","9","9">>)

\* C23: extract_tax_and_service returns a tax (a service charge) only when
\* its value v satisfies 0 < v < 10,000,000; an out-of-range match with no
\* in-range match of another pattern is returned as absent.
C23_ChargeInRange ==
    TaxCalled =>
        /\ call.out.tax # None => ChargeInRange(call.out.tax[1])
        /\ call.out.service # None => ChargeInRange(call.out.service[1])

\* 'tax: 0' gave the tax 0
C23_Witness ==
    /\ TaxCalled
    /\ text = <<"t","a","x",":"," ","0">>
    /\ call.out.tax = Some(<<"0">>)
    /\ call.out.service = None

---------------------------------------------------------------------------
(* The scan of the first lines for a shop name *)

NumericChars == DigitChars \cup {" ", ":", "/", "-", ".", ","}

\* the line holds digits and punctuation only, or it reads as a date
NumericLike(line) ==
    \/ \A i \in 1..Len(line) : line[i] \in NumericChars
    \/ extract_date(line) # None

IsNonEmptyLine(line) == line # <<>>

\* the first 5 non-empty lines of the text, stripped
FirstNonEmptyLines ==
    Take(SelectSeq([i \in 1..Len(TextLines) |-> Strip(TextLines[i])], IsNonEmptyLine), 5)

\* not numeric or timestamp-like, no denylist word, length within [6, 49]
EligibleLine(line) ==
    /\ ~NumericLike(line)
    /\ ~ContainsAny(Lower(line), merchant_denylist)
    /\ Len(line) >= 6
    /\ Len(line) <= 49

\* the first eligible line among the first 5 non-empty lines
FirstEligibleLine ==
    IF \E i \in 1..Len(FirstNonEmptyLines) : EligibleLine(FirstNonEmptyLines[i])
    THEN Some(FirstNonEmptyLines[CHOOSE i \in 1..Len(FirstNonEmptyLines) :
                  /\ EligibleLine(FirstNonEmptyLines[i])
                  /\ \A j \in 1..(i - 1) : ~EligibleLine(FirstNonEmptyLines[j])])
    ELSE None

\* C24: for text not classified as a transfer, extract_merchant returns the
\* first line, among the first 5 non-empty lines, that is not purely numeric
\* or timestamp-like, has no denylist word and has length in [6, 49]; blank
\* lines do not count toward the window and a line that only starts with a
\* digit remains eligible; it returns absent when there is no such line.
C24_FirstEligibleOfFiveNonEmpty ==
    (MerchantCalled /\ ~TransferClassified) => call.out = FirstEligibleLine

\* the shop name that starts with a digit gave no merchant
C24_Witness ==
    /\ MerchantCalled
    /\ ~TransferClassified
    /\ text = SevenElevenLine
    /\ FirstEligibleLine = Some(SevenElevenLine)
    /\ call.out = None

\* the shop name behind a numeric line and four blank lines gave no merchant
C24_WitnessBlankLines ==
    /\ MerchantCalled
    /\ ~TransferClassified
    /\ text = FiveBlankText
    /\ FirstEligibleLine = Some(WarungLine)
    /\ call.out = None

---------------------------------------------------------------------------
(* The total label in upper, title and lower case *)

TotalLabels == { <<"T","O","T","A","L">>, <<"T","o","t","a","l">>, <<"t","o","t","a","l">> }

\* C25: for a numeral N worth a value in [100, 10^11], the single-line texts
\* 'TOTAL N', 'Total N' and 'total N' all yield the amount N: the O->0, l->1,
\* I->1 substitutions and the removal of spaces never turn a letter of the
\* label into a leading digit of the amount.
C25_LabelCaseIndependent ==
    \A lab \in TotalLabels, h \in Heads, g \in GroupDigits, k \in 0..MaxGroups :
        (/\ AmountCalled
         /\ text = lab \o <<" ">> \o Grouped(h, g, k)
         /\ InAmountBounds(StripZeros(GroupedDigits(h, g, k))))
            => call.out.amount = Some(StripZeros(GroupedDigits(h, g, k)))

\* 'Total 50.000' gave 150000
C25_Witness ==
    /\ AmountCalled
    /\ text = <<"T","o","t","a","l"," ","5","0",".","0","0","0">>
    /\ call.out.amount = Some(<<"1","5","0","0","0","0">>)

\* 'TOTAL 100' gave no amount
C25_WitnessUpperCase ==
    /\ AmountCalled
    /\ text = <<"T","O","T","A","L"," ","1","0","0">>
    /\ call.out.amount = None

---------------------------------------------------------------------------
(* A date token that is not a day of the calendar *)

\* the text is the single token y-m-d or d/m/y and it names no calendar day
InvalidDateToken(y, m, d) ==
    /\ DateCalled
    /\ text \in {y \o <<"-">> \o m \o <<"-">> \o d, d \o <<"/">> \o m \o <<"/">> \o y}
    /\ ~IsCalendarDate(<<IntOf(y), IntOf(m), IntOf(d)>>)

\* C26: when the only date-like token of the text is calendar-invalid under
\* the grammar whose shape it has, extract_date returns absent: no date is
\* assembled by another grammar from a substring of the token.
C26_InvalidTokenGivesNoDate ==
    \A y \in Years4, m \in NumMonths, d \in NumDays :
        InvalidDateToken(y, m, d) => call.out.date = None

\* '2025-02-30' was read by the DD/MM/YY grammar as 2030-02-25
C26_Witness ==
    /\ InvalidDateToken(<<"2","0","2","5">>, <<"0","2">>, <<"3","0">>)
    /\ text = <<"2","0","2","5","-","0","2","-","3","0">>
    /\ call.out.via = "%d-%m-%y"
    /\ call.out.date = Some(<<2030, 2, 25>>)

---------------------------------------------------------------------------
(* A month-name date behind a line of the same shape *)

\* the month names of the date lines with their numbers
KnownMonths == { <<<<"O","k","t">>, 10>>, <<<<"F","e","b">>, 2>>, <<<<"A","p","r">>, 4>> }
FourDigitYears == { y \in IndoYears : Len(y) = 4 }

\* the text is a first line that holds no date and the line 'd month y',
\* which names the calendar day x
DateBehindLine(d, mn, y) ==
    /\ DateCalled
    /\ Len(TextLines) = 2
    /\ extract_date(TextLines[1]) = None
    /\ TextLines[2] = d \o <<" ">> \o mn[1] \o <<" ">> \o y
    /\ IsCalendarDate(<<IntOf(y), mn[2], IntOf(d)>>)

\* C27: when the text holds a calendar-valid 'day month-name year' with a
\* known month name, extract_date returns it, even when an earlier substring
\* of the shape '<1-2 digits> <word> <2-4 digits>' is not a date.
C27_LaterMonthNameDateFound ==
    \A d \in IndoDays, mn \in KnownMonths, y \in FourDigitYears :
        DateBehindLine(d, mn, y) => call.out.date = Some(<<IntOf(y), mn[2], IntOf(d)>>)

\* '2 Nasi 25000' followed by '30 Okt 2025' gave no date
C27_Witness ==
    /\ DateBehindLine(<<"3","0">>, <<<<"O","k","t">>, 10>>, <<"2","0","2","5">>)
    /\ text = NasiLine \o <<NL>> \o OktLine
    /\ call.out.date = None

---------------------------------------------------------------------------
(* Transfer confirmations that name no recipient and no bank *)

\* the text is classified as a transfer; it has no labelled recipient and no
\* bank or wallet name
AnonymousTransfer ==
    /\ MerchantCalled
    /\ TransferClassified
    /\ extract_recipient(text) = None
    /\ \A i \in 1..Len(bank_apps) : ~Contains(Lower(text), bank_apps[i])

\* C28: for transfer-classified text with neither a labelled recipient nor a
\* bank or wallet name, extract_merchant returns absent: the scan of the
\* first lines is applied only to text that is not classified as a transfer.
C28_AnonymousTransferAbsent ==
    AnonymousTransfer => call.out = None

\* 'Ref ID 12345' was returned as the merchant
C28_Witness ==
    /\ AnonymousTransfer
    /\ text = RefIdLine
    /\ call.out = Some(RefIdLine)

\* 'Transaksi Berhasil' followed by a shop name gave the shop name
C28_WitnessShopName ==
    /\ AnonymousTransfer
    /\ text = TransaksiBerhasilLine \o <<NL>> \o WarungLine
    /\ call.out = Some(WarungLine)

---------------------------------------------------------------------------
(* A percentage rate between the label and the amount *)

\* the labels that the percentage patterns know, as written on the lines
TaxRateLabels == { <<"t","a","x">>, <<"P","P","N">> }
ServiceRateLabels == { <<"S","e","r","v","i","c","e">> }
PercentRates == ChargeRates \ { <<>> }

\* the first line of the text is label, separator, rate, value with the
\* value within the range of a tax or service charge
RateLine(l, s, r, v) ==
    /\ TaxCalled
    /\ text # <<>>
    /\ Split(text)[1] = l \o s \o r \o v
    /\ ChargeInRange(Decimal(RemoveSeparators(v)))

\* C29: when a tax (or service) label is followed by a percentage rate and
\* then the monetary amount, extract_tax_and_service returns the monetary
\* amount and never the percentage figure.
C29_AmountNotRate ==
    \A s \in ChargeSeps, r \in PercentRates, v \in ChargeValues :
        /\ \A l \in TaxRateLabels :
               RateLine(l, s, r, v) => call.out.tax = Some(Decimal(RemoveSeparators(v)))
        /\ \A l \in ServiceRateLabels :
               RateLine(l, s, r, v) => call.out.service = Some(Decimal(RemoveSeparators(v)))

\* 'PPN 10% 5.000' gave the tax 10
C29_Witness ==
    /\ RateLine(<<"P","P","N">>, <<" ">>, <<"1","0","%"," ">>, <<"5",".","0","0","0">>)
    /\ text = <<"P","P","N"," ","1","0","%"," ","5",".","0","0","0">>
    /\ call.out.tax = Some(<<"1","0">>)
    /\ call.out.service = None

---------------------------------------------------------------------------
(* The message of a result without success *)

\* process_receipt_image returned success = false
ImageFailed ==
    /\ ImageCalled
    /\ ~call.out.raised
    /\ call.out.result.success = FALSE

\* C30: whenever process_receipt_image returns success = false the message
\* describes the failure: the error text, no text extracted, or the amount
\* could not be extracted; with items and no amount it is 'Could not extract
\* amount from receipt' and not 'Extracted N items'.
C30_FailureMessage ==
    ImageFailed =>
        call.out.result.message =
            IF call.ocr.raised THEN call.ocr.error
            ELSE IF call.ocr.text = <<>> THEN "Could not extract text from image"
            ELSE "Could not extract amount from receipt"

\* 'Es Teh    500' has an item and no amount: the message was 'Extracted 1 items'
C30_Witness ==
    /\ ImageFailed
    /\ text = EsTehLine
    /\ ~call.ocr.raised
    /\ call.out.result.amount = None
    /\ Len(call.out.result.items) = 1
    /\ call.out.result.message = "Extracted 1 items"

====
